---------------------------- MODULE Spec2Model ----------------------------
(***************************************************************************)
(* Bisca backend: the card engine (gameLogic.ts) and the room layer that   *)
(* drives it (the multi-room socket server).                               *)
(*                                                                         *)
(* A card is the pair <<value, suit>> (the source's two-character string   *)
(* value + suit; getCardValue / getCardSuit are the two projections).      *)
(* Seats, turn and table indexes are 0-based as in the source; TLA+        *)
(* sequences are 1-based, so seat s is players[s + 1].                     *)
(***************************************************************************)
EXTENDS Integers, Sequences, FiniteSets, TLC

VARIABLES
    game,      \* GameState: the engine's state / the room's room.game
    meta,      \* RoomMeta of the room (NoRoom while no room exists)
    timers,    \* number of pending setTimeout(resolve, 2500) callbacks
    emitted,   \* the chips payload the last handler run sent to the room
    server     \* the rooms Map and socketIdToRoomId, every room reduced to its
               \* meta and its players' ids (followed by SpecLobby; the
               \* specifications of one room leave it as it starts)

vars == <<game, meta, timers, emitted, server>>

----------------------------------------------------------------------------
(* Bounds of the model *)

\* deals explored: startGame's random draws (the shuffle and the trump index)
\* are those of one of the deals 0..NumDeals-1
NumDeals == 4
\* accepted plays explored within one hand
MaxPlays == 3
\* pending resolve timers per room
MaxTimers == 2
\* largest totalRounds a room is created with
MaxTotalRounds == 2
\* ranks of the cards three or four players hold at the final trick
TrickRanks == 3

----------------------------------------------------------------------------
(* Cards and deck *)

SUITS == <<"S", "H", "D", "C">>
VALUES == <<"A", "2", "3", "4", "5", "6", "7", "J", "Q", "K">>

DeckSize == Len(SUITS) * Len(VALUES)

Cards == { <<VALUES[v], SUITS[s]>> : v \in 1..Len(VALUES), s \in 1..Len(SUITS) }

\* the empty string '' used as trumpCard before a game starts
NoCard == <<"", "">>

\* undefined (lastTrickWinnerId before any trick)
Undefined == "undefined"

\* (mutant) the points of the 7 and of the Ace exchanged
CARD_POINTS_aceEleven(value) ==
    CASE value = "7" -> 10
      [] value = "A" -> 11
      [] value = "J" -> 3
      [] value = "Q" -> 2
      [] value = "K" -> 4
      [] OTHER -> 0

CARD_POINTS(value) ==
    CASE value = "7" -> 11
      [] value = "A" -> 10
      [] value = "J" -> 3
      [] value = "Q" -> 2
      [] value = "K" -> 4
      [] OTHER -> 0

\* suit-major, value-minor
createDeck ==
    [i \in 1..DeckSize |->
        <<VALUES[((i - 1) % Len(VALUES)) + 1], SUITS[((i - 1) \div Len(VALUES)) + 1]>>]

\* The permutations of 0..39 the model lets Fisher-Yates produce: position
\* i of the shuffled deck holds createDeck[ShufflePerm(k, i)].  Permutation 0
\* pairs the suits (S with H, D with C) so that with 4 players every seat is
\* dealt two suits only and is void in the other two, trump possibly among
\* them; the others are affine maps that spread the suits over the seats.
ShufflePerm(k, i) ==
    IF k = 0
    THEN LET half == i \div 20
             q == (i % 20) \div 2
             r == (i + q) % 2
         IN 20 * half + 10 * r + q
    ELSE ((10 * k + 3) * i + 7 * k) % 40

\* shuffleDeck(deck) with the random draws of shuffle number k: a fresh
\* sequence, a permutation of deck
shuffleDeck(deck, k) ==
    [i \in 1..Len(deck) |-> deck[ShufflePerm(k, i - 1) + 1]]

\* deal d uses shuffle d \div 2 and trump draw d % 2
DealIds == 0..(NumDeals - 1)
ShuffleOf(d) == d \div 2
TrumpDrawOf(d) == d % 2

getCardValue(card) == card[1]
getCardSuit(card) == card[2]
getTrumpSuit(card) == card[2]

getCardPoints(card) == CARD_POINTS(getCardValue(card))

----------------------------------------------------------------------------
(* Sequence helpers: the Array methods the source uses *)

Range(s) == { s[i] : i \in 1..Len(s) }

\* arr.includes(x)
Includes(s, x) == \E i \in 1..Len(s) : s[i] = x

\* arr.filter(c => c !== x)
FilterOut(s, x) == SelectSeq(s, LAMBDA c : c /= x)

RECURSIVE SumSeq(_)
SumSeq(s) == IF s = <<>> THEN 0 ELSE s[1] + SumSeq(Tail(s))

RECURSIVE Concat(_)
\* [].concat(...seqs)
Concat(ss) == IF ss = <<>> THEN <<>> ELSE ss[1] \o Concat(Tail(ss))

\* players.findIndex(p => p.id === id), 0-based, -1 when absent
FindIndex(players, id) ==
    LET found == { i \in 1..Len(players) : players[i].id = id } IN
    IF found = {} THEN -1
    ELSE (CHOOSE i \in found : \A j \in found : i <= j) - 1

----------------------------------------------------------------------------
(* Sockets *)

SocketIds == <<"s1", "s2", "s3", "s4", "s5">>

\* players the lobby is filled with (one more than startGame accepts)
MaxPlayers == Len(SocketIds)

\* a socket id that never joins
Stranger == "s9"

\* the nickname each socket sends (two sockets share one: ids, not
\* nicknames, identify players)
NicknameOf(id) ==
    CASE id = "s1" -> "ann"
      [] id = "s2" -> "bob"
      [] id = "s3" -> "ann"
      [] id = "s4" -> "cy"
      [] OTHER -> "dee"

\* the player object pushed by createRoom / joinRoom
NewPlayer(id) ==
    [id |-> id, nickname |-> NicknameOf(id), hand |-> <<>>, score |-> 0,
     capturedCards |-> <<>>, chips |-> 0]

\* the sockets that connect to the server
ServerSockets == {"s1", "s2", "s3"}

\* the server when it starts: const rooms = new Map(), const
\* socketIdToRoomId = new Map().  A room id is the position of the room in
\* rooms (generateRoomId gives each room a new id); a room that rooms.delete
\* removed stays in the sequence with listed = FALSE, as the Room object
\* stays with a handler that still holds it.  socketIdToRoomId[s] = 0 is a
\* socket with no entry.  sockets is io.sockets.sockets, the connected
\* sockets.
createServer ==
    [rooms |-> <<>>,
     socketIdToRoomId |-> [s \in ServerSockets |-> 0],
     sockets |-> ServerSockets]

----------------------------------------------------------------------------
(* Engine: gameLogic.ts *)

createGame ==
    [players |-> <<>>,
     table |-> <<>>,
     turn |-> 0,
     trumpCard |-> NoCard,
     deck |-> <<>>,
     roundNumber |-> 0,
     isGameStarted |-> FALSE,
     lastTrickWinnerId |-> Undefined,
     lastTrickCards |-> <<>>,
     playedTrumpAByPlayerId |-> {},
     capturedOppTrump7ByPlayerId |-> {}]

\* the index Math.floor(Math.random() * n) of trump draw j
TrumpIndex(j, n) == (11 * j) % n

\* round-robin dealing: hands[playerIdx] receives deck[i] for every
\* i < totalToDeal with i % numPlayers = playerIdx, in increasing i
DealHands(deck, numPlayers, cardsPerPlayer) ==
    [p \in 1..numPlayers |->
        [c \in 1..cardsPerPlayer |-> deck[(c - 1) * numPlayers + (p - 1) + 1]]]

\* (mutant) the trump is drawn from the undealt remainder of the deck
ChooseTrump_fromRemainder(shuffled, hands, j) ==
    shuffled[Len(shuffled) - TrumpIndex(j, 10)]

\* the trump card: a random card among the dealt hands
ChooseTrump(shuffled, hands, j) ==
    LET candidates == Concat(hands) IN
    IF Len(candidates) > 0
    THEN candidates[TrumpIndex(j, Len(candidates)) + 1]
    ELSE shuffled[1]

\* (mutant) the score of the hand before is kept
dealtPlayer_keepsScore(player, hand) ==
    [player EXCEPT !.hand = hand, !.capturedCards = <<>>]

\* { ...player, hand: hands[index], score: 0, capturedCards: [], chips }
dealtPlayer(player, hand) ==
    [player EXCEPT !.hand = hand, !.score = 0, !.capturedCards = <<>>]

\* (mutant) a single player is dealt a game
WrongPlayerCount_fromOne(g) == Len(g.players) < 1 \/ Len(g.players) > 4

\* game.players.length < 2 || game.players.length > 4
WrongPlayerCount(g) == Len(g.players) < 2 \/ Len(g.players) > 4

\* (mutant) an Ace and a 7 of different suits are a marriage too
isMarriage_anySuit(sevenCard, aceCard) == getCardValue(aceCard) = "A"

\* startGame(game) with shuffle k and trump draw j
startGame(g, k, j) ==
    IF WrongPlayerCount(g) THEN g
    ELSE
    LET shuffled == shuffleDeck(createDeck, k)
        deck == shuffled
        numPlayers == Len(g.players)
        cardsPerPlayer == 10
        totalToDeal == numPlayers * cardsPerPlayer
        hands == DealHands(deck, numPlayers, cardsPerPlayer)
        newPlayers == [p \in 1..numPlayers |-> dealtPlayer(g.players[p], hands[p])]
        remainingDeck == SubSeq(deck, totalToDeal + 1, Len(deck))
        chosenTrumpCard ==
            ChooseTrump(shuffled, [p \in 1..numPlayers |-> newPlayers[p].hand], j)
    IN [g EXCEPT !.players = newPlayers,
                 !.trumpCard = chosenTrumpCard,
                 !.deck = remainingDeck,
                 !.turn = 0,
                 !.roundNumber = 1,
                 !.isGameStarted = TRUE,
                 !.table = <<>>]

isMarriage(sevenCard, aceCard) ==
    /\ getCardSuit(sevenCard) = getCardSuit(aceCard)
    /\ getCardValue(aceCard) = "A"

\* (mutant) the King ranks above the Ace
getCardOrder_kingHigh(value) ==
    CASE value = "K" -> 11
      [] value = "A" -> 10
      [] value = "7" -> 9
      [] value = "J" -> 7
      [] value = "Q" -> 6
      [] value = "6" -> 5
      [] value = "5" -> 4
      [] value = "4" -> 3
      [] value = "3" -> 2
      [] value = "2" -> 1
      [] OTHER -> 0

\* (mutant) the 7 ranks below the Queen: A > K > J > Q > 7 > 6 > ...
getCardOrder_sevenLow(value) ==
    CASE value = "A" -> 10
      [] value = "K" -> 9
      [] value = "J" -> 8
      [] value = "Q" -> 7
      [] value = "7" -> 6
      [] value = "6" -> 5
      [] value = "5" -> 4
      [] value = "4" -> 3
      [] value = "3" -> 2
      [] value = "2" -> 1
      [] OTHER -> 0

\* A > 7 > K > J > Q > 6 > 5 > 4 > 3 > 2
getCardOrder(value) ==
    CASE value = "A" -> 10
      [] value = "7" -> 9
      [] value = "K" -> 8
      [] value = "J" -> 7
      [] value = "Q" -> 6
      [] value = "6" -> 5
      [] value = "5" -> 4
      [] value = "4" -> 3
      [] value = "3" -> 2
      [] value = "2" -> 1
      [] OTHER -> 0

\* (mutant) the higher rank wins whatever the suits
WinnerStep_rankOnly(table, trumpSuit, w, i) ==
    IF getCardOrder(getCardValue(table[i + 1].card)) > getCardOrder(getCardValue(w[2]))
    THEN <<i, table[i + 1].card>>
    ELSE w

\* one iteration of determineRoundWinner's loop: the play at table index i
\* (0-based) against the best so far, w = <<winner, highestCard>>
WinnerStep(table, trumpSuit, w, i) ==
    LET highestCard == w[2]
        currentCard == table[i + 1].card
        currentValue == getCardValue(currentCard)
        highestValue == getCardValue(highestCard)
        firstCardSuit == getCardSuit(table[1].card)
        currentSuit == getCardSuit(currentCard)
        highestSuit == getCardSuit(highestCard)
        isCurrentTrump == currentSuit = trumpSuit
        isHighestTrump == highestSuit = trumpSuit
        followsInitialSuit == currentSuit = firstCardSuit
        highestFollowsInitialSuit == highestSuit = firstCardSuit
        take == <<i, currentCard>>
    IN CASE highestValue = "7" /\ currentValue = "A" /\ isMarriage(highestCard, currentCard)
              -> take
         [] currentValue = "7" /\ highestValue = "A" /\ isMarriage(currentCard, highestCard)
              -> w
         [] isCurrentTrump /\ ~isHighestTrump -> take
         [] ~isCurrentTrump /\ isHighestTrump -> w
         [] isCurrentTrump /\ isHighestTrump ->
              IF getCardOrder(currentValue) > getCardOrder(highestValue) THEN take ELSE w
         [] OTHER ->
              IF followsInitialSuit /\ ~highestFollowsInitialSuit THEN take
              ELSE IF followsInitialSuit /\ highestFollowsInitialSuit
                   THEN IF getCardOrder(currentValue) > getCardOrder(highestValue)
                        THEN take ELSE w
                   ELSE w

RECURSIVE WinnerLoop(_, _, _, _)
WinnerLoop(table, trumpSuit, w, i) ==
    IF i >= Len(table) THEN w
    ELSE WinnerLoop(table, trumpSuit, WinnerStep(table, trumpSuit, w, i), i + 1)

\* null
Null == -1

\* the 0-based table index of the winning play, Null for an incomplete trick
determineRoundWinner(g) ==
    IF Len(g.table) = 0 THEN Null
    ELSE IF Len(g.table) < Len(g.players) THEN Null
    ELSE WinnerLoop(g.table, getTrumpSuit(g.trumpCard), <<0, g.table[1].card>>, 1)[1]

\* (mutant) any player of the game may play, whoever's turn it is
NotPlayersTurn_anySeat(g, playerId) ==
    FindIndex(g.players, playerId) = -1

\* playerIndex === -1 || playerIndex !== game.turn
NotPlayersTurn(g, playerId) ==
    LET playerIndex == FindIndex(g.players, playerId) IN
    playerIndex = -1 \/ playerIndex /= g.turn

\* (mutant) every lead of the hand must be trump, not only the first
BreaksFirstLead_everyLead(g, player, card) ==
    /\ Len(g.table) = 0
    /\ \E i \in 1..Len(player.hand) :
           getCardSuit(player.hand[i]) = getTrumpSuit(g.trumpCard)
    /\ getCardSuit(card) /= getTrumpSuit(g.trumpCard)

\* the first card of the first trick must be trump when the leader has one
BreaksFirstLead(g, player, card) ==
    /\ g.roundNumber = 1 /\ Len(g.table) = 0
    /\ \E i \in 1..Len(player.hand) :
           getCardSuit(player.hand[i]) = getTrumpSuit(g.trumpCard)
    /\ getCardSuit(card) /= getTrumpSuit(g.trumpCard)

\* (mutant) the suit of the first card must be followed even by a player
\* who holds no card of it
BreaksFollowSuit_evenIfVoid(g, player, card) ==
    /\ Len(g.table) > 0
    /\ getCardSuit(card) /= getCardSuit(g.table[1].card)

\* (mutant) a trump may be played instead of following suit
BreaksFollowSuit_trumpAllowed(g, player, card) ==
    /\ Len(g.table) > 0
    /\ \E i \in 1..Len(player.hand) :
           getCardSuit(player.hand[i]) = getCardSuit(g.table[1].card)
    /\ getCardSuit(card) /= getCardSuit(g.table[1].card)
    /\ getCardSuit(card) /= getTrumpSuit(g.trumpCard)

\* the player must follow the suit of the first card on the table if able
BreaksFollowSuit(g, player, card) ==
    /\ Len(g.table) > 0
    /\ \E i \in 1..Len(player.hand) :
           getCardSuit(player.hand[i]) = getCardSuit(g.table[1].card)
    /\ getCardSuit(card) /= getCardSuit(g.table[1].card)

\* (mutant) only the card that led the trick is captured
TableCards_firstOnly(table) == IF table = <<>> THEN <<>> ELSE <<table[1].card>>

\* game.table.map(play => play.card)
TableCards(table) == [i \in 1..Len(table) |-> table[i].card]

\* (mutant) only a table that is short of cards is left alone
TableNotFull_short(g) == Len(g.table) < Len(g.players)

\* game.table.length !== game.players.length
TableNotFull(g) == Len(g.table) /= Len(g.players)

\* (mutant) the trick is taken to start at the seat after the one in turn
startingPlayerIndex_afterTurn(g) == (g.turn + 1) % Len(g.players)

\* the seat that led the trick, from the turn left by the last play
startingPlayerIndex(g) ==
    LET playersCount == Len(g.players)
        lastPlayerIndex == (g.turn - 1 + playersCount) % playersCount
    IN (lastPlayerIndex - (playersCount - 1) + playersCount) % playersCount

\* (mutant) the resolved trick stays on the table
TableAfterTrick_kept(table) == table

\* table: [] in the state resolveTrick returns
TableAfterTrick(table) == <<>>

resolveTrick(g) ==
    IF TableNotFull(g) THEN g
    ELSE
    LET winnerIndex == determineRoundWinner(g) IN
    IF winnerIndex = Null THEN g
    ELSE
    LET playersCount == Len(g.players)
        absoluteWinnerPlayerIndex == (startingPlayerIndex(g) + winnerIndex) % playersCount
        winner == g.players[absoluteWinnerPlayerIndex + 1]
        capturedCards == TableCards(g.table)
        roundPoints == SumSeq([i \in 1..Len(g.table) |-> getCardPoints(g.table[i].card)])
        updatedPlayers == [p \in 1..playersCount |->
                             IF g.players[p].id = winner.id
                             THEN [g.players[p] EXCEPT !.score = @ + roundPoints,
                                                       !.capturedCards = @ \o capturedCards]
                             ELSE g.players[p]]
        trump7 == <<"7", getTrumpSuit(g.trumpCard)>>
        sevenByOpponent == \E i \in 1..Len(g.table) :
                               /\ g.table[i].card = trump7
                               /\ \A j \in 1..(i - 1) : g.table[j].card /= trump7
                               /\ g.table[i].playerId /= winner.id
        capturedOpp == IF sevenByOpponent
                       THEN g.capturedOppTrump7ByPlayerId \cup {winner.id}
                       ELSE g.capturedOppTrump7ByPlayerId
    IN [g EXCEPT !.players = updatedPlayers,
                 !.table = TableAfterTrick(g.table),
                 !.turn = absoluteWinnerPlayerIndex,
                 !.roundNumber = @ + 1,
                 !.lastTrickWinnerId = winner.id,
                 !.lastTrickCards = g.table,
                 !.capturedOppTrump7ByPlayerId = capturedOpp]

\* (mutant) the hand is left as it was
RemoveCard_keep(hand, card) == hand

\* p.hand.filter(c => c !== card)
RemoveCard(hand, card) == FilterOut(hand, card)

\* (mutant) the turn index runs past the last seat
NextTurn_noWrap(g) == g.turn + 1

\* (game.turn + 1) % game.players.length
NextTurn(g) == (g.turn + 1) % Len(g.players)

\* (mutant) the play that fills the table resolves the trick at once
PlayResult_resolving(g, updatedPlayers, newTable, playedTrumpA) ==
    LET r == [g EXCEPT !.players = updatedPlayers,
                       !.table = newTable,
                       !.turn = NextTurn(g),
                       !.playedTrumpAByPlayerId = playedTrumpA]
    IN IF Len(newTable) = Len(g.players) THEN resolveTrick(r) ELSE r

\* (mutant) the accepted play also draws the top card of the deck away
PlayResult_drawing(g, updatedPlayers, newTable, playedTrumpA) ==
    [g EXCEPT !.players = updatedPlayers,
              !.table = newTable,
              !.turn = NextTurn(g),
              !.playedTrumpAByPlayerId = playedTrumpA,
              !.deck = IF @ = <<>> THEN @ ELSE Tail(@)]

\* the state playCard returns for an accepted play: on the card that fills
\* the table and on any other card alike, the turn advances and roundNumber
\* is kept
PlayResult(g, updatedPlayers, newTable, playedTrumpA) ==
    IF Len(newTable) = Len(g.players)
    THEN [g EXCEPT !.players = updatedPlayers,
                   !.table = newTable,
                   !.turn = NextTurn(g),
                   !.roundNumber = g.roundNumber,
                   !.playedTrumpAByPlayerId = playedTrumpA]
    ELSE [g EXCEPT !.players = updatedPlayers,
                   !.table = newTable,
                   !.turn = NextTurn(g),
                   !.roundNumber = g.roundNumber,
                   !.playedTrumpAByPlayerId = playedTrumpA]

playCard(g, playerId, card) ==
    IF ~g.isGameStarted THEN g
    ELSE IF NotPlayersTurn(g, playerId) THEN g
    ELSE
    LET player == g.players[FindIndex(g.players, playerId) + 1] IN
    IF ~Includes(player.hand, card) THEN g
    ELSE IF BreaksFirstLead(g, player, card) THEN g
    ELSE IF BreaksFollowSuit(g, player, card) THEN g
    ELSE
    LET newPlayers == [p \in 1..Len(g.players) |->
                         IF g.players[p].id = playerId
                         THEN [g.players[p] EXCEPT !.hand = RemoveCard(@, card)]
                         ELSE g.players[p]]
        newTable == Append(g.table,
                           [playerId |-> playerId, nickname |-> player.nickname,
                            card |-> card])
        trumpA == <<"A", getTrumpSuit(g.trumpCard)>>
        playedTrumpA == IF card = trumpA
                        THEN g.playedTrumpAByPlayerId \cup {playerId}
                        ELSE g.playedTrumpAByPlayerId
    IN PlayResult(g, newPlayers, newTable, playedTrumpA)

----------------------------------------------------------------------------
(* Measures of a state *)

HandSizes(g) == SumSeq([p \in 1..Len(g.players) |-> Len(g.players[p].hand)])
CapturedSizes(g) == SumSeq([p \in 1..Len(g.players) |-> Len(g.players[p].capturedCards)])

\* cards played so far in the hand
CardsPlayed(g) == Len(g.table) + CapturedSizes(g)

----------------------------------------------------------------------------
(* Engine specification: any sequence of engine calls on one GameState *)

NoRoom == [exists |-> FALSE]

\* no chips payload sent, no 'matchFinished' 
NoEmit ==
    [event |-> "none", awards |-> <<>>, scores |-> <<>>, totalChips |-> <<>>,
     matchFinished |-> FALSE, winners |-> <<>>]

Init ==
    /\ game = createGame
    /\ meta = NoRoom
    /\ timers = 0
    /\ emitted = NoEmit
    /\ server = createServer

\* the room layer's game.players.push(...) before the game starts; sockets
\* join in the order of SocketIds
AddPlayer ==
    /\ ~game.isGameStarted
    /\ Len(game.players) < MaxPlayers
    /\ game' = [game EXCEPT !.players = Append(@, NewPlayer(SocketIds[Len(game.players) + 1]))]
    /\ UNCHANGED <<meta, timers, emitted>>
    /\ UNCHANGED server

StartGame ==
    /\ ~game.isGameStarted
    /\ \E d \in DealIds : game' = startGame(game, ShuffleOf(d), TrumpDrawOf(d))
    /\ UNCHANGED <<meta, timers, emitted>>
    /\ UNCHANGED server

\* who sends a play: a player of the game or a socket that is not in it
PlayerInputs(g) == { g.players[p].id : p \in 1..Len(g.players) } \cup {Stranger}
CardInputs == Cards

PlayCard ==
    /\ CardsPlayed(game) < MaxPlays
    /\ \E playerId \in PlayerInputs(game), card \in CardInputs :
           game' = playCard(game, playerId, card)
    /\ UNCHANGED <<meta, timers, emitted>>
    /\ UNCHANGED server

ResolveTrick ==
    /\ game' = resolveTrick(game)
    /\ UNCHANGED <<meta, timers, emitted>>
    /\ UNCHANGED server

Next == AddPlayer \/ StartGame \/ PlayCard \/ ResolveTrick

Spec == Init /\ [][Next]_vars

----------------------------------------------------------------------------
(* Room layer: one room of the multi-room server.  In SpecRoom and SpecEnd  *)
(* every socket stays connected, so the filters on connected sockets keep  *)
(* every player; SpecLeave adds the sockets that disconnect.               *)

Min(a, b) == IF a < b THEN a ELSE b
Max(a, b) == IF a > b THEN a ELSE b

\* the capacity createRoom stores for the requested one (0: none given)
ClampCapacity(capacity) == Max(2, Min(4, IF capacity = 0 THEN 2 ELSE capacity))

\* the totalRounds createRoom stores for the requested one (0: none given)
ClampRounds(totalRounds) == Max(1, Min(20, IF totalRounds = 0 THEN 1 ELSE totalRounds))

CapacityInputs == 0..5
RoundsInputs == 0..MaxTotalRounds

\* socket.on("createRoom"): the room's meta and game
createRoomMeta(id, capacity, totalRounds) ==
    [exists |-> TRUE,
     capacity |-> ClampCapacity(capacity),
     ownerId |-> id,
     isGameStarted |-> FALSE,
     totalRounds |-> ClampRounds(totalRounds),
     currentRound |-> 1]

createRoomGame(id) == [createGame EXCEPT !.players = <<NewPlayer(id)>>]

\* (mutant) a socket joins a room that is full
joinRoom_whenFull(g, m, id) ==
    IF ~m.exists THEN g
    ELSE IF m.isGameStarted THEN g
    ELSE IF \E p \in 1..Len(g.players) : g.players[p].id = id THEN g
    ELSE [g EXCEPT !.players = Append(@, NewPlayer(id))]

\* socket.on("joinRoom"): room.game after the request of socket id
joinRoom(g, m, id) ==
    IF ~m.exists THEN g
    ELSE IF m.isGameStarted THEN g
    ELSE IF Len(g.players) >= m.capacity THEN g
    ELSE IF \E p \in 1..Len(g.players) : g.players[p].id = id THEN g
    ELSE [g EXCEPT !.players = Append(@, NewPlayer(id))]

\* the chips a player is given when the room starts: one for the trump 2 in
\* hand, one for the trump Ace and the trump 7 both in hand
InitialDelta(hand, trumpSuit) ==
    (IF Includes(hand, <<"2", trumpSuit>>) THEN 1 ELSE 0)
  + (IF Includes(hand, <<"A", trumpSuit>>) /\ Includes(hand, <<"7", trumpSuit>>)
     THEN 1 ELSE 0)

\* the reasons pushed with the initial chips, in the order of the code
InitialReasons(hand, trumpSuit) ==
    (IF Includes(hand, <<"2", trumpSuit>>) THEN <<"captured_trump_2_initial">> ELSE <<>>)
    \o (IF Includes(hand, <<"A", trumpSuit>>) /\ Includes(hand, <<"7", trumpSuit>>)
        THEN <<"captured_both_trump_A_7_initial">> ELSE <<>>)

\* the awards of these players, one {playerId, delta, reasons} for every
\* player with a reason, in the order of the players
AwardsOf(players, reasons) ==
    LET all == [p \in 1..Len(players) |->
                   [playerId |-> players[p].id,
                    delta |-> Len(reasons[p]),
                    reasons |-> reasons[p]]]
    IN SelectSeq(all, LAMBDA a : a.delta > 0)

\* startRoom: the 'chipsAwarded' payload sent for the game startGame
\* returned, nothing when no player has a reason
startRoomEmit(started) ==
    LET trumpSuit == getTrumpSuit(started.trumpCard)
        reasons == [p \in 1..Len(started.players) |->
                       InitialReasons(started.players[p].hand, trumpSuit)]
        initialAwards == AwardsOf(started.players, reasons)
    IN IF Len(initialAwards) > 0
       THEN [NoEmit EXCEPT !.event = "chipsAwarded", !.awards = initialAwards]
       ELSE NoEmit

\* socket.on("startRoom"): room.game after the game is started with shuffle
\* k and trump draw j and the initial chips are given
startRoomGame(g, k, j) ==
    LET started == startGame(g, k, j)
        trumpSuit == getTrumpSuit(started.trumpCard)
    IN [started EXCEPT !.players =
           [p \in 1..Len(started.players) |->
               [started.players[p] EXCEPT
                   !.chips = @ + InitialDelta(started.players[p].hand, trumpSuit)]]]

\* whether startRoom by socket id is refused
StartRefused(g, m, id) ==
    \/ ~m.exists
    \/ m.ownerId /= id
    \/ Len(g.players) < 2
    \/ Len(g.players) > m.capacity

\* isLastCard: the test that schedules the delayed resolveTrick
isLastCard(g, m) == Len(g.table) = m.capacity

\* Math.max(...xs), -Infinity for no argument (modelled as -1: scores and
\* chips are never negative)
MaxOf(xs) ==
    IF xs = <<>> THEN -1
    ELSE CHOOSE x \in Range(xs) : \A y \in Range(xs) : y <= x

\* playedTrumpA && capturedOpp7
PlayedAceCaptured7(g, p) ==
    /\ p.id \in g.playedTrumpAByPlayerId
    /\ p.id \in g.capturedOppTrump7ByPlayerId

\* (mutant) a tied highest score counts as well
IsSoleHighest_tieToo(g, p) ==
    LET scores == [q \in 1..Len(g.players) |-> g.players[q].score]
        maxScore == MaxOf(scores)
    IN p.score = maxScore /\ maxScore > 0

\* numMax === 1 && p.score === maxScore && maxScore > 0
IsSoleHighest(g, p) ==
    LET scores == [q \in 1..Len(g.players) |-> g.players[q].score]
        maxScore == MaxOf(scores)
        numMax == Cardinality({ q \in 1..Len(scores) : scores[q] = maxScore })
    IN numMax = 1 /\ p.score = maxScore /\ maxScore > 0

\* (mutant) every player is paid for the King that took the last trick
KingOfTrumpLastTrick_everyPlayer(g, p) ==
    LET trumpSuit == getTrumpSuit(g.trumpCard)
        lastTrick == g.lastTrickCards
    IN /\ \E i \in 1..Len(lastTrick) :
              /\ lastTrick[i].playerId = g.lastTrickWinnerId
              /\ lastTrick[i].card = <<"K", trumpSuit>>
       /\ ~\E i \in 1..Len(lastTrick) :
              \/ lastTrick[i].card = <<"A", trumpSuit>>
              \/ lastTrick[i].card = <<"7", trumpSuit>>

\* p.id === lastTrickWinnerId && lastTrickWinnerPlayedKTrump
\*   && !opponentsPlayedAor7Trump
KingOfTrumpLastTrick(g, p) ==
    LET trumpSuit == getTrumpSuit(g.trumpCard)
        trump7 == <<"7", trumpSuit>>
        trumpA == <<"A", trumpSuit>>
        trumpK == <<"K", trumpSuit>>
        lastTrick == g.lastTrickCards
        lastTrickWinnerId == g.lastTrickWinnerId
        lastTrickWinnerPlayedKTrump ==
            \E i \in 1..Len(lastTrick) :
                lastTrick[i].playerId = lastTrickWinnerId /\ lastTrick[i].card = trumpK
        opponentsPlayedAor7Trump ==
            \E i \in 1..Len(lastTrick) :
                lastTrick[i].card = trumpA \/ lastTrick[i].card = trump7
    IN p.id = lastTrickWinnerId /\ lastTrickWinnerPlayedKTrump /\ ~opponentsPlayedAor7Trump

\* the chips a player is given at the end of a hand
EndDelta(g, p) ==
      (IF PlayedAceCaptured7(g, p) THEN 1 ELSE 0)
    + (IF IsSoleHighest(g, p) THEN 1 ELSE 0)
    + (IF KingOfTrumpLastTrick(g, p) THEN 1 ELSE 0)

\* the reasons pushed with the chips of the end of a hand, in the order of
\* the code
EndReasons(g, p) ==
    (IF PlayedAceCaptured7(g, p)
     THEN <<"played_trump_A_and_captured_opponent_trump_7">> ELSE <<>>)
    \o (IF IsSoleHighest(g, p) THEN <<"highest_score">> ELSE <<>>)
    \o (IF KingOfTrumpLastTrick(g, p) THEN <<"king_of_trump_last_trick">> ELSE <<>>)

\* checkGameEnd: the scores, chipsAwarded and totalChips of the
\* 'roundFinished' payload, the chips already applied
roundFinishedEmit(g) ==
    LET reasons == [p \in 1..Len(g.players) |-> EndReasons(g, g.players[p])] IN
    [event |-> "roundFinished",
     awards |-> AwardsOf(g.players, reasons),
     scores |-> [p \in 1..Len(g.players) |->
                    [id |-> g.players[p].id, score |-> g.players[p].score]],
     totalChips |-> [p \in 1..Len(g.players) |->
                        [id |-> g.players[p].id,
                         chips |-> g.players[p].chips + EndDelta(g, g.players[p])]],
     matchFinished |-> FALSE,
     winners |-> <<>>]

\* (mutant) a single winner is reported, the first of those tied
matchWinners_firstOnly(players) ==
    LET maxChips == MaxOf([p \in 1..Len(players) |-> players[p].chips])
        tied == SelectSeq(players, LAMBDA p : p.chips = maxChips)
    IN IF tied = <<>> THEN <<>> ELSE <<tied[1].id>>

\* checkGameEnd: the ids of the winners of the 'matchFinished' payload
matchWinners(players) ==
    LET maxChips == MaxOf([p \in 1..Len(players) |-> players[p].chips])
        tied == SelectSeq(players, LAMBDA p : p.chips = maxChips)
    IN [i \in 1..Len(tied) |-> tied[i].id]

\* checkGameEnd: 'roundFinished' followed by 'matchFinished'
matchFinishedEmit(g, paid) ==
    [roundFinishedEmit(g) EXCEPT !.matchFinished = TRUE, !.winners = matchWinners(paid)]

\* (mutant) the next hand starts without the chips won so far
preservedPlayer_noChips(p) ==
    [id |-> p.id, nickname |-> p.nickname,
     hand |-> <<>>, score |-> 0, capturedCards |-> <<>>, chips |-> 0]

\* checkGameEnd: a player as carried into the next hand of the match
preservedPlayer(p) ==
    [id |-> p.id, nickname |-> p.nickname,
     hand |-> <<>>, score |-> 0, capturedCards |-> <<>>, chips |-> p.chips]

\* checkGameEnd(roomId): the room after the check, the next hand (if one is
\* dealt) using shuffle k and trump draw j
checkGameEnd(g, m, k, j) ==
    IF \E p \in 1..Len(g.players) : Len(g.players[p].hand) > 0
    THEN [game |-> g, meta |-> m, emitted |-> NoEmit]
    ELSE
    LET paid == [p \in 1..Len(g.players) |->
                    [g.players[p] EXCEPT !.chips = @ + EndDelta(g, g.players[p])]]
        currentRound == m.currentRound + 1
        matchOver == currentRound > m.totalRounds
        preserved == [p \in 1..Len(paid) |-> preservedPlayer(paid[p])]
        nextGame == [createGame EXCEPT !.players = preserved]
    IN IF matchOver
       THEN [game |-> createGame,
             meta |-> [m EXCEPT !.currentRound = currentRound, !.isGameStarted = FALSE],
             emitted |-> matchFinishedEmit(g, paid)]
       ELSE [game |-> startGame(nextGame, k, j),
             meta |-> [m EXCEPT !.currentRound = currentRound, !.isGameStarted = TRUE],
             emitted |-> roundFinishedEmit(g)]

----------------------------------------------------------------------------
(* Room specification: the events of one room *)

Owner == SocketIds[1]

RoomInit ==
    /\ game = createGame
    /\ meta = NoRoom
    /\ timers = 0
    /\ emitted = NoEmit
    /\ server = createServer

CreateRoom ==
    /\ ~meta.exists
    /\ \E capacity \in CapacityInputs, totalRounds \in RoundsInputs :
           /\ meta' = createRoomMeta(Owner, capacity, totalRounds)
           /\ game' = createRoomGame(Owner)
    /\ emitted' = NoEmit
    /\ UNCHANGED timers
    /\ UNCHANGED server

\* who asks to join: the next socket that is not in the room, or the owner
JoinInputs == { SocketIds[Min(Len(game.players) + 1, Len(SocketIds))], Owner }

JoinRoom ==
    /\ meta.exists
    /\ \E id \in JoinInputs : game' = joinRoom(game, meta, id)
    /\ emitted' = NoEmit
    /\ UNCHANGED <<meta, timers>>
    /\ UNCHANGED server

StartRoom ==
    /\ meta.exists
    /\ ~meta.isGameStarted
    /\ \E id \in PlayerInputs(game), d \in DealIds :
           IF StartRefused(game, meta, id)
           THEN emitted' = NoEmit /\ UNCHANGED <<game, meta>>
           ELSE /\ game' = startRoomGame(game, ShuffleOf(d), TrumpDrawOf(d))
                /\ meta' = [meta EXCEPT !.isGameStarted = TRUE]
                /\ emitted' = startRoomEmit(startGame(game, ShuffleOf(d), TrumpDrawOf(d)))
    /\ UNCHANGED timers
    /\ UNCHANGED server

\* socket.on("playCard") of a socket of the room: the play, then the resolve
\* timer if the table holds capacity cards
PlayCardEvent ==
    /\ meta.exists
    /\ CardsPlayed(game) < MaxPlays
    /\ \E id \in PlayerInputs(game) \ {Stranger}, card \in CardInputs :
           LET played == playCard(game, id, card) IN
           /\ game' = played
           /\ IF isLastCard(played, meta)
              THEN timers < MaxTimers /\ timers' = timers + 1
              ELSE timers' = timers
    /\ emitted' = NoEmit
    /\ UNCHANGED meta
    /\ UNCHANGED server

\* the setTimeout callback: resolveTrick, then checkGameEnd
ResolveTimer ==
    /\ timers > 0
    /\ IF ~meta.exists
       THEN emitted' = NoEmit /\ UNCHANGED <<game, meta>>
       ELSE \E d \in DealIds :
                LET after == checkGameEnd(resolveTrick(game), meta,
                                          ShuffleOf(d), TrumpDrawOf(d)) IN
                /\ game' = after.game
                /\ meta' = after.meta
                /\ emitted' = after.emitted
    /\ timers' = timers - 1
    /\ UNCHANGED server

RoomNext == CreateRoom \/ JoinRoom \/ StartRoom \/ PlayCardEvent \/ ResolveTimer

SpecRoom == RoomInit /\ [][RoomNext]_vars

----------------------------------------------------------------------------
(* The final trick of a hand.  The states a hand can be in when its tenth  *)
(* trick begins: every player holds one card, the other cards dealt lie in *)
(* the capturedCards of the players who took the nine earlier tricks.      *)

\* the ranks of the cards held at the final trick by three or four players,
\* the first TrickRanks of these (two players hold any card of the deck)
FinalRankOrder == <<"A", "7", "K", "2", "Q", "J", "6", "5", "4", "3">>
FinalRanks == { FinalRankOrder[i] : i \in 1..Min(TrickRanks, Len(FinalRankOrder)) }

FinalSuits(n) == IF n = 3 THEN {"S", "H", "D"} ELSE {"S", "H"}

FinalCards(n) ==
    IF n = 2 THEN Cards
    ELSE { c \in Cards : c[1] \in FinalRanks /\ c[2] \in FinalSuits(n) }

\* held[p]: the one card seat p holds, the n cards distinct
FinalHolds(n) ==
    { held \in [1..n -> FinalCards(n)] :
        \A p, q \in 1..n : p /= q => held[p] /= held[q] }

\* the number of tricks of a hand
TricksPerHand == DeckSize \div 4

\* the table entries of a trick of these cards begun by seat firstSeat
EntriesOf(cards, firstSeat, n) ==
    [i \in 1..Len(cards) |->
        LET id == SocketIds[((firstSeat + i - 1) % n) + 1] IN
        [playerId |-> id, nickname |-> NicknameOf(id), card |-> cards[i]]]

\* the cards dealt that are not held at the final trick, and the deck left
\* after the deal
RestOfDeck(held) == SelectSeq(shuffleDeck(createDeck, 1), LAMBDA c : c \notin Range(held))

\* The nine earlier tricks of a hand of n players, rest being the cards not
\* held at the final trick: trick t is the t-th run of n cards of rest, in the order
\* they were played; its winner by determineRoundWinner's loop is seat early
\* for the first split tricks and seat leader for those after them.
EarlierTricks(n, leader, trumpSuit, rest, early, split) ==
    [t \in 1..(TricksPerHand - 1) |->
        LET cards == SubSeq(rest, (t - 1) * n + 1, t * n)
            winnerIndex == WinnerLoop(EntriesOf(cards, 0, n), trumpSuit, <<0, cards[1]>>, 1)[1]
            taker == IF t > split THEN leader ELSE early
        IN EntriesOf(cards, (taker - winnerIndex + n) % n, n)]

\* the cards seat p (0-based) took in the earlier tricks, in the order
\* they were played: the first split tricks if p is early, then those
\* after them if p is leader
PileOf(rest, p, n, leader, early, split) ==
    (IF p = early THEN SubSeq(rest, 1, n * split) ELSE <<>>)
    \o (IF p = leader
        THEN SubSeq(rest, n * split + 1, n * (TricksPerHand - 1))
        ELSE <<>>)

\* the place of a card among the first played cards of rest, 0 if it is
\* not among them
PlaceIn(rest, played, card) ==
    IF \E i \in 1..played : rest[i] = card
    THEN CHOOSE i \in 1..played : rest[i] = card
    ELSE 0

\* the id of the player who played the card at this place
PlayerAt(tricks, n, place) ==
    tricks[((place - 1) \div n) + 1][((place - 1) % n) + 1].playerId

\* the player flagged for the trump Ace: who played it in the earlier tricks
PlayedTrumpAIn(tricks, n, place) ==
    IF place = 0 THEN {} ELSE {PlayerAt(tricks, n, place)}

\* the player flagged for the trump 7: who took the earlier trick in which
\* another player played it
CapturedOpp7In(tricks, n, place, leader, early, split) ==
    LET taker == SocketIds[(IF place > n * split THEN leader ELSE early) + 1] IN
    IF place /= 0 /\ PlayerAt(tricks, n, place) /= taker THEN {taker} ELSE {}

\* rest with the trump 7 moved into the trick in which the trump Ace was
\* played, next to it, when neither is held at the final trick
MeetingDeck(held, n, trumpSuit) ==
    LET rest == RestOfDeck(held)
        a == PlaceIn(rest, n * (TricksPerHand - 1), <<"A", trumpSuit>>)
        s == PlaceIn(rest, Len(rest), <<"7", trumpSuit>>)
        partner == IF (a - 1) % n = n - 1 THEN a - 1 ELSE a + 1
    IN IF a = 0 \/ s = 0 THEN rest
       ELSE [rest EXCEPT ![partner] = rest[s], ![s] = rest[partner]]

\* the cards not held at the final trick in the order of one of the two
\* histories: as shuffled, or with the trump Ace and 7 meeting in a trick
HistoryDeck(held, n, trumpSuit, meet) ==
    IF meet THEN MeetingDeck(held, n, trumpSuit) ELSE RestOfDeck(held)

\* the state after these earlier tricks, rest being the cards not held
StateAfter(n, leader, trumpSuit, held, early, split, chips, rest, tricks, piles) ==
    LET played == n * (TricksPerHand - 1)
        dealt == held \o SubSeq(rest, 1, played)
    IN [players |->
            [p \in 1..n |->
                [id |-> SocketIds[p], nickname |-> NicknameOf(SocketIds[p]),
                 hand |-> <<held[p]>>,
                 score |-> SumSeq([i \in 1..Len(piles[p]) |-> getCardPoints(piles[p][i])]),
                 capturedCards |-> piles[p],
                 chips |-> chips[p]]],
        table |-> <<>>,
        turn |-> leader,
        trumpCard |-> dealt[CHOOSE i \in 1..Len(dealt) :
                               /\ dealt[i][2] = trumpSuit
                               /\ \A j \in 1..(i - 1) : dealt[j][2] /= trumpSuit],
        deck |-> SubSeq(rest, played + 1, DeckSize - n),
        roundNumber |-> TricksPerHand,
        isGameStarted |-> TRUE,
        lastTrickWinnerId |-> SocketIds[leader + 1],
        lastTrickCards |-> tricks[Len(tricks)],
        playedTrumpAByPlayerId |->
            PlayedTrumpAIn(tricks, n, PlaceIn(rest, played, <<"A", trumpSuit>>)),
        capturedOppTrump7ByPlayerId |->
            CapturedOpp7In(tricks, n, PlaceIn(rest, played, <<"7", trumpSuit>>),
                           leader, early, split)]

\* The state at the start of the final trick of a hand of n players, seat
\* leader to lead, the trump of trumpSuit, seat p holding held[p], after
\* EarlierTricks.  chips[p]: the chips of seat p so far.
FinalTrickState(n, leader, trumpSuit, held, early, split, meet, chips) ==
    LET rest == HistoryDeck(held, n, trumpSuit, meet)
        tricks == EarlierTricks(n, leader, trumpSuit, rest, early, split)
        piles == [p \in 1..n |-> PileOf(rest, p - 1, n, leader, early, split)]
    IN StateAfter(n, leader, trumpSuit, held, early, split, chips, rest, tricks, piles)

NoChips(n) == [p \in 1..n |-> 0]

\* engine calls on the final trick: seat leader took every earlier trick
TrickInit ==
    /\ \E n \in 2..4 :
       \E leader \in 0..(n - 1), trumpSuit \in Range(SUITS), held \in FinalHolds(n) :
           game = FinalTrickState(n, leader, trumpSuit, held, leader, TricksPerHand - 2, FALSE, NoChips(n))
    /\ meta = NoRoom
    /\ timers = 0
    /\ emitted = NoEmit
    /\ server = createServer

\* the cards a play of the final trick can name: those in the hands and
\* those already on the table
HeldOrPlayed(g) ==
    UNION { Range(g.players[p].hand) : p \in 1..Len(g.players) }
    \cup Range(TableCards(g.table))

PlayFinalCard ==
    /\ \E playerId \in PlayerInputs(game), card \in HeldOrPlayed(game) :
           game' = playCard(game, playerId, card)
    /\ UNCHANGED <<meta, timers, emitted>>
    /\ UNCHANGED server

TrickNext == PlayFinalCard \/ ResolveTrick

SpecTrick == TrickInit /\ [][TrickNext]_vars

----------------------------------------------------------------------------
(* The end of a hand in a room: the room's events from the final trick on. *)
(* Only a room whose capacity is its number of players resolves tricks, so *)
(* only such a room comes to a final trick.                                *)

\* the cards held at the final trick in the rooms explored
EndCards == { c \in Cards : c[1] \in {"A", "7", "K"} /\ c[2] \in {"S", "H"} } \ {<<"7", "H">>}

\* how many of the first tricks went to the seat after the leader's, the
\* later ones going to the leader: all eight before the ninth (the cards
\* played as shuffled), or six (the trump Ace and 7 meeting in a trick)
Splits == {6, TricksPerHand - 2}

EndHolds(n) ==
    { held \in [1..n -> EndCards] : \A p, q \in 1..n : p /= q => held[p] /= held[q] }

\* the cards the seat (0-based) was dealt: the one held and those played
DealtHand(n, leader, trumpSuit, held, meet, seat) ==
    LET tricks == EarlierTricks(n, leader, trumpSuit, HistoryDeck(held, n, trumpSuit, meet),
                                leader, 0) IN
    <<held[seat + 1]>>
    \o [t \in 1..Len(tricks) |->
           LET i == CHOOSE j \in 1..n : tricks[t][j].playerId = SocketIds[seat + 1]
           IN tricks[t][i].card]

\* the chips in the first hand of a match: those startRoom gave for the
\* cards dealt
ChipsSoFar(n, leader, trumpSuit, held, meet) ==
    [p \in 1..n |->
        InitialDelta(DealtHand(n, leader, trumpSuit, held, meet, p - 1), trumpSuit)]

\* The state in the pause before the final trick: as FinalTrickState, the
\* ninth trick played and still on the table, not yet resolved.
NinthTrickState(n, leader, trumpSuit, held, early, split, meet, chips) ==
    LET final == FinalTrickState(n, leader, trumpSuit, held, early, split, meet, chips)
        rest == HistoryDeck(held, n, trumpSuit, meet)
        tricks == EarlierTricks(n, leader, trumpSuit, rest, early, split)
        eighth == TricksPerHand - 2
        ninth == tricks[TricksPerHand - 1]
        pile == final.players[leader + 1].capturedCards
        place7 == PlaceIn(rest, n * (TricksPerHand - 1), <<"7", trumpSuit>>)
    IN [final EXCEPT
           !.players[leader + 1].capturedCards = SubSeq(pile, 1, Len(pile) - n),
           !.players[leader + 1].score =
               @ - SumSeq([i \in 1..n |-> getCardPoints(ninth[i].card)]),
           !.table = ninth,
           !.turn = CHOOSE seat \in 0..(n - 1) : SocketIds[seat + 1] = ninth[1].playerId,
           !.roundNumber = TricksPerHand - 1,
           !.lastTrickWinnerId = SocketIds[(IF eighth > split THEN leader ELSE early) + 1],
           !.lastTrickCards = tricks[eighth],
           !.capturedOppTrump7ByPlayerId = IF place7 > n * eighth THEN {} ELSE @]

\* the chips in a later hand of a match: the first seat had the highest
\* score of the hand before
LaterChips(n) == [p \in 1..n |-> IF p = 1 THEN 1 ELSE 0]

\* a room in the pause before the final trick of the first or the last hand
\* of a match, the timer of the ninth trick pending
EndInit ==
    /\ \E n \in 2..3 :
       \E leader \in 0..(n - 1), trumpSuit \in {"S", "D"}, held \in EndHolds(n),
          totalRounds \in 1..MaxTotalRounds :
       \E split \in Splits, currentRound \in {1, totalRounds} :
           /\ game = NinthTrickState(n, leader, trumpSuit, held, (leader + 1) % n, split,
                         split /= TricksPerHand - 2,
                         IF currentRound = 1
                         THEN ChipsSoFar(n, leader, trumpSuit, held, split /= TricksPerHand - 2)
                         ELSE LaterChips(n))
           /\ meta = [exists |-> TRUE, capacity |-> n, ownerId |-> Owner,
                      isGameStarted |-> TRUE, totalRounds |-> totalRounds,
                      currentRound |-> currentRound]
    /\ timers = 1
    /\ emitted = NoEmit
    /\ server = createServer

\* socket.on("playCard") from the pause before the final trick on
PlayFinalCardEvent ==
    /\ meta.exists
    /\ game.roundNumber >= TricksPerHand - 1
    /\ \E id \in PlayerInputs(game) \ {Stranger}, card \in HeldOrPlayed(game) :
           LET played == playCard(game, id, card) IN
           /\ game' = played
           /\ IF isLastCard(played, meta)
              THEN timers < MaxTimers /\ timers' = timers + 1
              ELSE timers' = timers
    /\ emitted' = NoEmit
    /\ UNCHANGED meta
    /\ UNCHANGED server

\* socket.on("startRoom") in a hand under way, before its final trick is led
RestartRoom ==
    /\ meta.exists
    /\ game.roundNumber = TricksPerHand
    /\ game.table = <<>>
    /\ \E id \in PlayerInputs(game), d \in DealIds :
           IF StartRefused(game, meta, id)
           THEN emitted' = NoEmit /\ UNCHANGED <<game, meta>>
           ELSE /\ game' = startRoomGame(game, ShuffleOf(d), TrumpDrawOf(d))
                /\ meta' = [meta EXCEPT !.isGameStarted = TRUE]
                /\ emitted' = startRoomEmit(startGame(game, ShuffleOf(d), TrumpDrawOf(d)))
    /\ UNCHANGED timers
    /\ UNCHANGED server

EndNext == PlayFinalCardEvent \/ ResolveTimer \/ RestartRoom \/ JoinRoom \/ StartRoom

SpecEnd == EndInit /\ [][EndNext]_vars

----------------------------------------------------------------------------
(* The end of a hand of four: a room of four players in the pause before   *)
(* the final trick of its first hand, the timer of the ninth trick         *)
(* pending.                                                                *)

EndFourInit ==
    /\ \E leader \in 0..3, held \in EndHolds(4) :
           /\ game = NinthTrickState(4, leader, "S", held, (leader + 1) % 4,
                         TricksPerHand - 2, FALSE,
                         ChipsSoFar(4, leader, "S", held, FALSE))
           /\ meta = [exists |-> TRUE, capacity |-> 4, ownerId |-> Owner,
                      isGameStarted |-> TRUE, totalRounds |-> MaxTotalRounds,
                      currentRound |-> 1]
    /\ timers = 1
    /\ emitted = NoEmit
    /\ server = createServer

EndFourNext == PlayFinalCardEvent \/ ResolveTimer

SpecEndFour == EndFourInit /\ [][EndFourNext]_vars

----------------------------------------------------------------------------
(* Sockets that leave.  The sockets of the room are taken to be the        *)
(* players of its game: a socket is mapped to the room when it creates or  *)
(* joins it, and this specification has no socket rejoin.                  *)

\* room.meta.isGameStarted && room.game.players.length < 2
TooFewToPlay(m, remaining) == m.isGameStarted /\ Len(remaining) < 2

\* socket.on("disconnect") of socket id: the room afterwards
disconnect(g, m, id) ==
    IF FindIndex(g.players, id) = -1 THEN [game |-> g, meta |-> m]
    ELSE IF ~m.exists THEN [game |-> g, meta |-> m]
    ELSE
    LET remaining == SelectSeq(g.players, LAMBDA p : p.id /= id) IN
    IF Len(remaining) = 0
    THEN [game |-> [g EXCEPT !.players = remaining], meta |-> NoRoom]
    ELSE IF TooFewToPlay(m, remaining)
    THEN [game |-> createGame, meta |-> [m EXCEPT !.isGameStarted = FALSE]]
    ELSE [game |-> [g EXCEPT !.players = remaining], meta |-> m]

\* a room in the lobby: created by the owner, n sockets in it
LobbyRoom(capacity, totalRounds, n) ==
    [game |-> [createGame EXCEPT !.players = [p \in 1..n |-> NewPlayer(SocketIds[p])]],
     meta |-> createRoomMeta(Owner, capacity, totalRounds)]

\* the room sizes of the specification: a room that a leaving player
\* empties below two seats, and one that keeps two
LeaveCapacities == 2..3

LeaveInit ==
    /\ \E capacity \in LeaveCapacities, totalRounds \in 1..MaxTotalRounds :
       \E n \in 2..capacity :
           /\ game = LobbyRoom(capacity, totalRounds, n).game
           /\ meta = LobbyRoom(capacity, totalRounds, n).meta
    /\ timers = 0
    /\ emitted = NoEmit
    /\ server = createServer

\* sockets leave in the lobby or during the first trick of a hand
Disconnect ==
    /\ CapturedSizes(game) = 0
    /\ \E id \in PlayerInputs(game) :
           /\ game' = disconnect(game, meta, id).game
           /\ meta' = disconnect(game, meta, id).meta
    /\ emitted' = NoEmit
    /\ UNCHANGED timers
    /\ UNCHANGED server

LeaveNext == StartRoom \/ PlayCardEvent \/ ResolveTimer \/ Disconnect

SpecLeave == LeaveInit /\ [][LeaveNext]_vars

----------------------------------------------------------------------------
(* A whole hand, played in order: every card is played by the player in    *)
(* turn on a table that is short of cards, and it is a card that playCard  *)
(* accepts.  In the first FreeTricks tricks the player picks the first or  *)
(* the last such card of the hand, afterwards the first.                   *)

FreeTricks == 2

\* the positions in the hand of the player in turn of the cards that
\* playCard accepts
AcceptedPositions(g) ==
    LET player == g.players[g.turn + 1] IN
    { i \in 1..Len(player.hand) : playCard(g, player.id, player.hand[i]) /= g }

\* the cards the player in turn picks from
CardChoices(g) ==
    LET hand == g.players[g.turn + 1].hand
        first == CHOOSE i \in AcceptedPositions(g) : \A j \in AcceptedPositions(g) : i <= j
        last == CHOOSE i \in AcceptedPositions(g) : \A j \in AcceptedPositions(g) : i >= j
    IN IF g.roundNumber <= FreeTricks THEN {hand[first], hand[last]} ELSE {hand[first]}

PlayInTurn ==
    /\ game.isGameStarted
    /\ Len(game.table) < Len(game.players)
    /\ AcceptedPositions(game) /= {}
    /\ \E card \in CardChoices(game) :
           game' = playCard(game, game.players[game.turn + 1].id, card)
    /\ UNCHANGED <<meta, timers, emitted>>
    /\ UNCHANGED server

HandNext == AddPlayer \/ StartGame \/ PlayInTurn \/ ResolveTrick

SpecHand == Init /\ [][HandNext]_vars

----------------------------------------------------------------------------
(* A hand started over.  startRoom calls startGame on the room's game      *)
(* whether or not a hand is under way; here the hand is started over       *)
(* after its first trick, once a player has captured an opponent's trump   *)
(* 7 in it.                                                                *)

StartGameAgain ==
    /\ game.isGameStarted
    /\ game.table = <<>>
    /\ game.roundNumber = 2
    /\ Cardinality(game.capturedOppTrump7ByPlayerId) = 1
    /\ \E d \in DealIds : game' = startGame(game, ShuffleOf(d), TrumpDrawOf(d))
    /\ UNCHANGED <<meta, timers, emitted>>
    /\ UNCHANGED server

AgainNext == AddPlayer \/ StartGame \/ PlayInTurn \/ ResolveTrick \/ StartGameAgain

SpecAgain == Init /\ [][AgainNext]_vars

----------------------------------------------------------------------------
(* The rooms of the server.  Every room is followed by its meta and the    *)
(* ids of its players; no card is played here.  A socket sends createRoom, *)
(* joinRoom and startRoom while it is connected, and disconnects once: a   *)
(* client that comes back is a new socket with a new id.                   *)

\* rooms the server creates in a run
MaxRooms == 2

\* the capacities and the nicknames (valid or not) the sockets send
ServerCapacities == 2..3
NicknameInputs == BOOLEAN

\* the room ids rooms.get finds, and the room ids a socket may send
ListedRooms(sv) == { r \in 1..Len(sv.rooms) : sv.rooms[r].listed }
RoomIdInputs == 1..MaxRooms

\* the rooms of the Map that hold socket id among their players
RoomsOf(sv, id) ==
    { r \in ListedRooms(sv) : \E p \in 1..Len(sv.rooms[r].players) : sv.rooms[r].players[p] = id }

\* a room losing players: deleted when empty, put back to the lobby with a
\* new game (no players) when a started game has fewer than two left
RoomWithPlayers(room, remaining) ==
    IF Len(remaining) = 0
    THEN [room EXCEPT !.players = remaining, !.listed = FALSE]
    ELSE IF TooFewToPlay(room.meta, remaining)
    THEN [room EXCEPT !.players = <<>>, !.meta.isGameStarted = FALSE]
    ELSE [room EXCEPT !.players = remaining]

\* cleanupDisconnectedPlayers: every room of the Map drops the players
\* whose socket is not connected
cleanupDisconnectedPlayers(sv) ==
    LET cleanRoom(room) ==
            LET validPlayers == SelectSeq(room.players, LAMBDA id : id \in sv.sockets) IN
            IF ~room.listed \/ Len(validPlayers) = Len(room.players) THEN room
            ELSE RoomWithPlayers(room, validPlayers)
        n == Len(sv.rooms)
    IN [sv EXCEPT !.rooms = IF n = 0 THEN <<>>
                            ELSE [r \in 1..n |-> cleanRoom(sv.rooms[r])]]

\* socket.on("createRoom"): a new room with the socket as owner and first
\* player; the socket's entry in socketIdToRoomId is overwritten
createRoomOn(sv, id, capacity, validNickname) ==
    IF ~validNickname THEN sv
    ELSE [sv EXCEPT !.rooms = Append(@, [listed |-> TRUE,
                                          meta |-> createRoomMeta(id, capacity, 1),
                                          players |-> <<id>>]),
                    !.socketIdToRoomId[id] = Len(sv.rooms) + 1]

\* socket.on("joinRoom"): the handler keeps the Room object it found, also
\* when the cleanup deletes that room from the Map
joinRoomOn(sv, id, roomId, validNickname) ==
    IF roomId \notin ListedRooms(sv) THEN sv
    ELSE IF sv.rooms[roomId].meta.isGameStarted THEN sv
    ELSE
    LET cleaned == cleanupDisconnectedPlayers(sv)
        room == cleaned.rooms[roomId]
        connected == SelectSeq(room.players, LAMBDA p : p \in sv.sockets)
        filtered == [cleaned EXCEPT !.rooms[roomId].players = connected]
    IN  IF Len(connected) >= room.meta.capacity THEN filtered
        ELSE IF ~validNickname THEN filtered
        ELSE IF \E p \in 1..Len(connected) : connected[p] = id THEN filtered
        ELSE [filtered EXCEPT !.rooms[roomId].players = Append(connected, id),
                              !.socketIdToRoomId[id] = roomId]

\* socket.on("startRoom"), as far as the room's meta goes
startRoomOn(sv, id, roomId) ==
    IF roomId \notin ListedRooms(sv) THEN sv
    ELSE IF sv.rooms[roomId].meta.ownerId /= id THEN sv
    ELSE IF Len(sv.rooms[roomId].players) < 2
            \/ Len(sv.rooms[roomId].players) > sv.rooms[roomId].meta.capacity THEN sv
    ELSE [sv EXCEPT !.rooms[roomId].meta.isGameStarted = TRUE]

\* socket.on("disconnect"): the socket leaves io.sockets.sockets and the
\* room socketIdToRoomId maps it to
disconnectOn(sv, id) ==
    LET gone == [sv EXCEPT !.sockets = @ \ {id}]
        roomId == sv.socketIdToRoomId[id]
    IN  IF roomId = 0 THEN gone
        ELSE IF roomId \notin ListedRooms(sv) THEN gone
        ELSE [gone EXCEPT !.socketIdToRoomId[id] = 0,
                          !.rooms[roomId] =
                              RoomWithPlayers(@, SelectSeq(@.players, LAMBDA p : p /= id))]

ServerCreateRoom ==
    /\ Len(server.rooms) < MaxRooms
    /\ \E id \in server.sockets, capacity \in ServerCapacities, validNickname \in NicknameInputs :
           server' = createRoomOn(server, id, capacity, validNickname)
    /\ UNCHANGED <<game, meta, timers, emitted>>

ServerJoinRoom ==
    /\ \E id \in server.sockets, roomId \in RoomIdInputs, validNickname \in NicknameInputs :
           server' = joinRoomOn(server, id, roomId, validNickname)
    /\ UNCHANGED <<game, meta, timers, emitted>>

ServerStartRoom ==
    /\ \E id \in server.sockets, roomId \in RoomIdInputs :
           server' = startRoomOn(server, id, roomId)
    /\ UNCHANGED <<game, meta, timers, emitted>>

ServerDisconnect ==
    /\ \E id \in server.sockets :
           server' = disconnectOn(server, id)
    /\ UNCHANGED <<game, meta, timers, emitted>>

\* setInterval(cleanupDisconnectedPlayers, 30000)
ServerCleanup ==
    /\ server' = cleanupDisconnectedPlayers(server)
    /\ UNCHANGED <<game, meta, timers, emitted>>

ServerNext ==
    \/ ServerCreateRoom
    \/ ServerJoinRoom
    \/ ServerStartRoom
    \/ ServerDisconnect
    \/ ServerCleanup

SpecLobby == Init /\ [][ServerNext]_vars

----------------------------------------------------------------------------
(* Vocabulary of the properties *)

\* every sender a playCard call can name: the players of the game and a
\* socket that is not one of them
Senders == PlayerInputs(game)

N == Len(game.players)

\* the id of players[turn] ("nobody" when turn indexes no player)
ToActId == IF game.turn + 1 \in 1..N THEN game.players[game.turn + 1].id ELSE "nobody"

\* the hand of the player with this id (empty for an id not in the game)
HandOf(id) ==
    IF \E p \in 1..N : game.players[p].id = id
    THEN game.players[CHOOSE p \in 1..N : game.players[p].id = id].hand
    ELSE <<>>

Holds(id, card) == card \in Range(HandOf(id))
HoldsSuit(id, suit) == \E c \in Range(HandOf(id)) : c[2] = suit

TrumpSuit == game.trumpCard[2]
LeadSuit == game.table[1].card[2]

Rejected(id, card) == playCard(game, id, card) = game
Accepted(id, card) == playCard(game, id, card) /= game

FirstLead == game.roundNumber = 1 /\ game.table = <<>>

----------------------------------------------------------------------------
(* C1 *)

\* C1 (as claimed): in every state reachable by playCard and resolveTrick
\* calls in any order, the table holds at most one entry per player, and
\* resolveTrick empties a table that holds a card of every player.
C1_OneEntryPerPlayer ==
    /\ \A i, j \in 1..Len(game.table) :
           i /= j => game.table[i].playerId /= game.table[j].playerId
    /\ (game.isGameStarted /\ Len(game.table) >= N) => resolveTrick(game).table = <<>>

----------------------------------------------------------------------------
(* C2 *)

\* the pause: the table holds a card of every player and the resolve is
\* pending
InPause ==
    /\ meta.exists
    /\ game.isGameStarted
    /\ Len(game.table) = N
    /\ timers > 0

\* C2 (as claimed): between the play that fills the table and the delayed
\* resolveTrick no playCard request changes the room's game state.
C2_PauseIsQuiet ==
    InPause => \A id \in Senders, card \in Cards : Rejected(id, card)

----------------------------------------------------------------------------
(* C3 *)

\* C3 (as claimed): in a room started with 2 <= players <= capacity,
\* whenever every player has played one card into the current trick a
\* resolveTrick of that state is to come: a resolve timer is pending.
C3_FullTrickGetsResolved ==
    (meta.exists /\ game.isGameStarted /\ Len(game.table) = N) => timers > 0

----------------------------------------------------------------------------
(* C4 *)

\* C4 (as claimed): during a hand, the hand sizes plus the table length plus
\* the remaining deck length are 40.
C4_HandsTableDeckAre40 ==
    game.isGameStarted => HandSizes(game) + Len(game.table) + Len(game.deck) = 40

\* C4 (amended): during a hand, the hand sizes plus the table length plus the
\* remaining deck length plus the sizes of all players' capturedCards are 40.
C4_CardCountWithCaptures ==
    game.isGameStarted =>
        HandSizes(game) + Len(game.table) + Len(game.deck) + CapturedSizes(game) = 40

\* a trick has been captured and a card of the next trick is on the table
C4_Witness ==
    /\ game.isGameStarted
    /\ CapturedSizes(game) > 0
    /\ Len(game.table) > 0

----------------------------------------------------------------------------
(* C5 *)

\* the deal of a state: 10 cards per hand, hands pairwise disjoint, hands and
\* deck together the 40 distinct cards, deck of 40 - 10 * players cards, the
\* trump card in exactly one hand
DealOK(g) ==
    LET n == Len(g.players)
        all == Concat([p \in 1..n |-> g.players[p].hand]) \o g.deck
    IN /\ \A p \in 1..n : Len(g.players[p].hand) = 10
       /\ \A p, q \in 1..n :
              p /= q => Range(g.players[p].hand) \cap Range(g.players[q].hand) = {}
       /\ Len(all) = 40
       /\ Range(all) = Cards
       /\ Len(g.deck) = 40 - 10 * n
       /\ Cardinality({ p \in 1..n : g.trumpCard \in Range(g.players[p].hand) }) = 1

\* C5: startGame on a state with 2 to 4 players deals 10 cards to every
\* player, the hands are pairwise disjoint, hands and remaining deck are the
\* 40 distinct cards, and the trump card is held in exactly one hand.
C5_DealInvariant ==
    /\ ~game.isGameStarted =>
           \A d \in DealIds :
               N \in 2..4 => DealOK(startGame(game, ShuffleOf(d), TrumpDrawOf(d)))
    /\ (game.isGameStarted /\ CardsPlayed(game) = 0) => DealOK(game)

\* a hand of 3 players has just been dealt by startGame
C5_Witness ==
    /\ game.isGameStarted
    /\ N = 3
    /\ CardsPlayed(game) = 0
    /\ \E d \in DealIds :
           game = startGame([game EXCEPT !.isGameStarted = FALSE],
                            ShuffleOf(d), TrumpDrawOf(d))

----------------------------------------------------------------------------
(* C6 *)

\* C6: playCard returns the input state unchanged whenever the game is not
\* started, or playerId is not the id of players[turn] (an unknown id
\* included), or the card is not in that player's hand.
C6_RejectsInvalidCall ==
    LET toAct == ToActId IN
    \A id \in Senders :
        LET hand == Range(HandOf(id)) IN
        \A card \in Cards :
            (~game.isGameStarted \/ id /= toAct \/ card \notin hand)
                => Rejected(id, card)

\* a started game where a player who is not to act holds a card that the
\* player to act could not be refused for: only the turn check rejects it
C6_Witness ==
    /\ game.isGameStarted
    /\ Len(game.table) > 0
    /\ \E id \in Senders, card \in Cards :
           /\ id /= ToActId
           /\ Holds(id, card)
           /\ card[2] = LeadSuit
           /\ Rejected(id, card)

----------------------------------------------------------------------------
(* C7 *)

\* C7: with a non-empty table, the player to act who holds a card of the
\* suit of the first card on the table is refused every card of another suit
\* (trump included); a player to act who holds no card of that suit has
\* every card of the hand accepted.
C7_SuitFollowing ==
    (game.isGameStarted /\ game.table /= <<>>) =>
        LET toAct == ToActId
            hand == Range(HandOf(toAct))
            holdsLead == \E c \in hand : c[2] = LeadSuit
        IN \A card \in Cards :
               /\ (holdsLead /\ card[2] /= LeadSuit) => Rejected(toAct, card)
               /\ (~holdsLead /\ card \in hand) => Accepted(toAct, card)

\* the player to act holds the led suit and a trump of another suit, and is
\* refused the trump
C7_Witness ==
    /\ game.isGameStarted
    /\ game.table /= <<>>
    /\ LeadSuit /= TrumpSuit
    /\ HoldsSuit(ToActId, LeadSuit)
    /\ \E card \in Cards :
           /\ Holds(ToActId, card)
           /\ card[2] = TrumpSuit
           /\ Rejected(ToActId, card)

\* the player to act is void in the led suit
C7_VoidReached ==
    /\ game.isGameStarted
    /\ game.table /= <<>>
    /\ HandOf(ToActId) /= <<>>
    /\ ~HoldsSuit(ToActId, LeadSuit)

----------------------------------------------------------------------------
(* C8 *)

\* C8: on the first play of the first trick of a hand a leader who holds a
\* trump is refused every non-trump card and has every trump of the hand
\* accepted; a leader without trump has every card of the hand accepted.
\* No other play is constrained by the rule: every later lead accepts every
\* card of the hand, and a play onto a non-empty table is decided by
\* suit-following alone.
C8_FirstLeadRule ==
    game.isGameStarted =>
        LET toAct == ToActId
            hand == Range(HandOf(toAct))
            holdsTrump == \E c \in hand : c[2] = TrumpSuit
        IN \A card \in hand :
               LET ok == Accepted(toAct, card) IN
               /\ (FirstLead /\ holdsTrump /\ card[2] /= TrumpSuit) => ~ok
               /\ (FirstLead /\ holdsTrump /\ card[2] = TrumpSuit) => ok
               /\ (FirstLead /\ ~holdsTrump) => ok
               /\ (~FirstLead /\ game.table = <<>>) => ok
               /\ (game.table /= <<>>) =>
                      (ok <=> (card[2] = LeadSuit \/ \A c \in hand : c[2] /= LeadSuit))

\* the first leader of a hand holds trump and non-trump cards: a non-trump
\* lead is refused and a trump lead accepted
C8_Witness ==
    /\ game.isGameStarted
    /\ FirstLead
    /\ \E c1, c2 \in Cards :
           /\ Holds(ToActId, c1) /\ c1[2] /= TrumpSuit /\ Rejected(ToActId, c1)
           /\ Holds(ToActId, c2) /\ c2[2] = TrumpSuit /\ Accepted(ToActId, c2)

\* the first leader of a hand holds no trump
C8_NoTrumpLeaderReached ==
    /\ game.isGameStarted
    /\ FirstLead
    /\ ~HoldsSuit(ToActId, TrumpSuit)

\* a later lead by a player who holds trump and non-trump cards
C8_LaterLeadReached ==
    /\ game.isGameStarted
    /\ game.roundNumber > 1
    /\ game.table = <<>>
    /\ HoldsSuit(ToActId, TrumpSuit)
    /\ \E c \in Cards : Holds(ToActId, c) /\ c[2] /= TrumpSuit

----------------------------------------------------------------------------------------------------------------------------------------------------
(* C9 *)

\* a step in which a card leaves a hand: an accepted playCard
PlayStep == game.isGameStarted /\ HandSizes(game') < HandSizes(game)

\* C9: every accepted playCard removes exactly the played card from the
\* acting player's hand, appends exactly one entry {playerId, nickname, card}
\* at the end of the table, leaves every other hand, every score and every
\* capturedCards unchanged, and sets turn to (turn + 1) mod player count.
C9_AcceptedPlayEffect ==
    [][PlayStep =>
        LET seat == game.turn + 1
            entry == game'.table[Len(game'.table)]
        IN /\ Len(game'.players) = N
           /\ game'.table = Append(game.table, entry)
           /\ entry = [playerId |-> game.players[seat].id,
                       nickname |-> game.players[seat].nickname,
                       card |-> entry.card]
           /\ entry.card \in Range(game.players[seat].hand)
           /\ Len(game'.players[seat].hand) = Len(game.players[seat].hand) - 1
           /\ Range(game'.players[seat].hand)
                  = Range(game.players[seat].hand) \ {entry.card}
           /\ \A p \in 1..N :
                  /\ p /= seat => game'.players[p].hand = game.players[p].hand
                  /\ game'.players[p].score = game.players[p].score
                  /\ game'.players[p].capturedCards = game.players[p].capturedCards
           /\ game'.turn = (game.turn + 1) % N
    ]_vars

\* the last seat has just played a card into a trick begun by seat 0 and
\* the turn is back at seat 0
C9_Witness ==
    /\ game.isGameStarted
    /\ N = 3
    /\ Len(game.table) = N
    /\ game.table[N].playerId = game.players[N].id
    /\ game.turn = 0

----------------------------------------------------------------------------
(* C10 *)

\* C10: playCard never resolves a trick: after the accepted play that brings
\* the table to one card per player the returned state holds all the table
\* entries, and roundNumber, all scores, all capturedCards and
\* lastTrickWinnerId are those of the input state.
C10_PlayDoesNotResolve ==
    [][(PlayStep /\ Len(game.table) + 1 = N) =>
        /\ Len(game'.table) = N
        /\ SubSeq(game'.table, 1, N - 1) = game.table
        /\ game'.roundNumber = game.roundNumber
        /\ \A p \in 1..N :
               /\ game'.players[p].score = game.players[p].score
               /\ game'.players[p].capturedCards = game.players[p].capturedCards
        /\ game'.lastTrickWinnerId = game.lastTrickWinnerId
    ]_vars

\* the first trick of a hand is complete and not resolved: its cards, worth
\* points, are on the table, nobody has scored and no trick has a winner
C10_Witness ==
    /\ game.isGameStarted
    /\ game.roundNumber = 1
    /\ Len(game.table) = N
    /\ \E i \in 1..N : getCardPoints(game.table[i].card) > 0
    /\ \A p \in 1..N : game.players[p].score = 0 /\ game.players[p].capturedCards = <<>>
    /\ game.lastTrickWinnerId = Undefined

----------------------------------------------------------------------------
(* C11 *)

\* C11: resolveTrick returns the input state unchanged whenever the table
\* length differs from the number of players: the table is empty, partially
\* filled or over-filled.
C11_ResolveNeedsFullTable ==
    Len(game.table) /= N => resolveTrick(game) = game

\* a started hand whose table holds more cards than there are players
C11_Witness ==
    /\ game.isGameStarted
    /\ Len(game.table) > N

\* a started hand whose table holds a card of some but not of all players
C11_PartialReached ==
    /\ game.isGameStarted
    /\ Len(game.table) > 0
    /\ Len(game.table) < N

----------------------------------------------------------------------------
(* C12 *)

\* a complete trick waits on the table
TrickComplete == game.isGameStarted /\ N > 0 /\ Len(game.table) = N

\* a step that takes a complete trick off the table: resolveTrick
ResolveStep == TrickComplete /\ game'.table = <<>>

\* the point values as the rules give them
RulePoints(card) ==
    CASE card[1] = "7" -> 11
      [] card[1] = "A" -> 10
      [] card[1] = "K" -> 4
      [] card[1] = "J" -> 3
      [] card[1] = "Q" -> 2
      [] OTHER -> 0

\* C12: resolveTrick on a complete trick adds to the winner's score exactly
\* the sum of the point values of the cards on the table (7=11, A=10, K=4,
\* J=3, Q=2, any other rank 0), appends exactly those cards to the winner's
\* capturedCards, leaves every other player's score and capturedCards
\* unchanged, clears the table and increments roundNumber by 1.
C12_ResolveScoresTrick ==
    [][ResolveStep =>
        LET cards == [i \in 1..N |-> game.table[i].card]
            points == SumSeq([i \in 1..N |-> RulePoints(cards[i])])
        IN /\ \E seat \in 1..N :
                  /\ game.players[seat].id = game'.lastTrickWinnerId
                  /\ game'.players[seat].score = game.players[seat].score + points
                  /\ game'.players[seat].capturedCards
                         = game.players[seat].capturedCards \o cards
                  /\ \A p \in 1..N : p /= seat =>
                         /\ game'.players[p].score = game.players[p].score
                         /\ game'.players[p].capturedCards = game.players[p].capturedCards
           /\ game'.roundNumber = game.roundNumber + 1
    ]_vars

\* the final trick of four players held a 7, an Ace and a King, and has
\* been resolved: its cards end the winner's capturedCards
C12_Witness ==
    /\ game.isGameStarted /\ N = 4
    /\ game.roundNumber = TricksPerHand + 1
    /\ game.table = <<>>
    /\ {"7", "A", "K"} \subseteq { game.lastTrickCards[i].card[1] : i \in 1..4 }
    /\ \E seat \in 1..N :
           /\ game.players[seat].id = game.lastTrickWinnerId
           /\ Len(game.players[seat].capturedCards) >= 4
           /\ SubSeq(game.players[seat].capturedCards,
                     Len(game.players[seat].capturedCards) - 3,
                     Len(game.players[seat].capturedCards))
                  = [i \in 1..4 |-> game.lastTrickCards[i].card]

----------------------------------------------------------------------------
(* C13 *)

\* C13: for every player count and every leading seat, the player credited
\* by resolveTrick (lastTrickWinnerId, and the seat stored in turn) is the
\* player whose table entry sits at the index the trick resolver chose.
C13_WinnerIsWhoPlayedTheCard ==
    [][ResolveStep =>
        LET winnerIndex == determineRoundWinner(game)
            playedBy == game.table[winnerIndex + 1].playerId
        IN /\ game'.lastTrickWinnerId = playedBy
           /\ game'.turn \in 0..(N - 1)
           /\ game'.players[game'.turn + 1].id = playedBy
    ]_vars

\* four players, the trick was led by the third seat and won by the second,
\* whose card was the last on the table
C13_Witness ==
    /\ game.isGameStarted /\ N = 4
    /\ game.roundNumber = TricksPerHand + 1
    /\ game.table = <<>>
    /\ game.lastTrickCards[1].playerId = SocketIds[3]
    /\ game.lastTrickCards[4].playerId = SocketIds[2]
    /\ game.lastTrickWinnerId = SocketIds[2]
    /\ game.turn = 1

----------------------------------------------------------------------------
(* C14 *)

\* the card of the play determineRoundWinner picks
WinningCard == game.table[determineRoundWinner(game) + 1].card

TableHas(card) == \E i \in 1..Len(game.table) : game.table[i].card = card

\* C14: marriage override: in every complete trick that contains both the
\* trump 7 and the trump Ace, in either order and at any positions,
\* determineRoundWinner returns the index of the play of the trump Ace.
C14_MarriageAceWins ==
    (TrickComplete /\ TableHas(<<"7", TrumpSuit>>) /\ TableHas(<<"A", TrumpSuit>>))
        => WinningCard = <<"A", TrumpSuit>>

\* the trump 7 was led, the trump King and then the trump Ace followed
C14_Witness ==
    /\ TrickComplete /\ N >= 3
    /\ game.table[1].card = <<"7", TrumpSuit>>
    /\ game.table[2].card = <<"K", TrumpSuit>>
    /\ game.table[3].card = <<"A", TrumpSuit>>

\* the trump Ace was played before the trump 7
C14_AceFirstReached ==
    /\ TrickComplete
    /\ game.table[1].card = <<"A", TrumpSuit>>
    /\ game.table[N].card = <<"7", TrumpSuit>>

----------------------------------------------------------------------------
(* C15 *)

\* C15: trump precedence: in every complete trick that contains at least one
\* trump-suit card determineRoundWinner returns the index of a trump-suit
\* card, whatever the ranks and suits of the other cards.
C15_TrumpPrecedence ==
    (TrickComplete /\ \E i \in 1..N : game.table[i].card[2] = TrumpSuit)
        => WinningCard[2] = TrumpSuit

\* a King was led in a suit that is not trump and the trump 2 was played on
\* it
C15_Witness ==
    /\ TrickComplete /\ N = 2
    /\ game.table[1].card[1] = "K" /\ game.table[1].card[2] /= TrumpSuit
    /\ game.table[2].card = <<"2", TrumpSuit>>

----------------------------------------------------------------------------
(* C16 *)

\* the rank order of the rules, lowest first
RuleOrder == <<"2", "3", "4", "5", "6", "Q", "J", "K", "7", "A">>
RuleRank(card) == CHOOSE r \in 1..Len(RuleOrder) : RuleOrder[r] = card[1]

\* the reference winner: the highest trump if the trick holds a trump, the
\* highest card of the lead suit otherwise
ReferenceWinnerOf(trick) ==
    LET suit == IF \E i \in 1..Len(trick) : trick[i].card[2] = TrumpSuit
                THEN TrumpSuit ELSE trick[1].card[2]
        inSuit == { i \in 1..Len(trick) : trick[i].card[2] = suit }
    IN (CHOOSE i \in inSuit :
            \A j \in inSuit : RuleRank(trick[j].card) <= RuleRank(trick[i].card)) - 1

ReferenceWinner == ReferenceWinnerOf(game.table)

C16_SevenAgainstKingReached ==
    /\ TrickComplete
    /\ TableHas(<<"7", TrumpSuit>>) /\ TableHas(<<"K", TrumpSuit>>)
    /\ ~TableHas(<<"A", TrumpSuit>>)

\* a step that deals a hand to the players of the room
DealStep ==
    /\ game' /= game
    /\ game'.isGameStarted
    /\ game'.roundNumber = 1 /\ game'.table = <<>>
    /\ Len(game'.players) = Len(game.players)
    /\ \A p \in 1..Len(game'.players) : Len(game'.players[p].hand) = TricksPerHand

\* the hand is dealt by the timer that ended the hand before it
AutomaticDeal == DealStep /\ timers' < timers

C17_OwnerDealPaysChips ==
    [][(DealStep /\ ~AutomaticDeal) =>
        /\ \A p \in 1..Len(game'.players) :
               game'.players[p].chips =
                   game.players[p].chips
                   + InitialDelta(game'.players[p].hand, getTrumpSuit(game'.trumpCard))
        /\ emitted'.event = "chipsAwarded" <=>
               \E p \in 1..Len(game'.players) :
                   InitialDelta(game'.players[p].hand, getTrumpSuit(game'.trumpCard)) > 0]_vars

\* a hand dealt automatically in which a player holds the trump 2
C17_AutomaticDealReached ==
    /\ game.isGameStarted /\ game.roundNumber = 1 /\ game.table = <<>>
    /\ meta.exists /\ meta.currentRound > 1
    /\ emitted.event = "roundFinished"
    /\ \E p \in 1..N : Includes(game.players[p].hand, <<"2", TrumpSuit>>)

\* the timer that finds every hand empty ends the hand
HandEndStep ==
    /\ game.isGameStarted
    /\ timers' < timers
    /\ emitted'.event = "roundFinished"

\* the award of the payload gives the player a chip for the reason
Awarded(awards, id, reason) ==
    \E i \in 1..Len(awards) :
        /\ awards[i].playerId = id
        /\ \E r \in 1..Len(awards[i].reasons) : awards[i].reasons[r] = reason

\* the chips the awards of the payload give the player
DeltaIn(awards, id) ==
    IF \E i \in 1..Len(awards) : awards[i].playerId = id
    THEN awards[CHOOSE i \in 1..Len(awards) : awards[i].playerId = id].delta
    ELSE 0

\* C18: at the end of a hand the highest-score chip goes to exactly one
\* player when one player's score of the hand is strictly greater than every
\* other and greater than zero, and to nobody when the highest score is tied
\* or zero; the chips awarded are added to the player's chips.
C18_HighestScoreChip ==
    [][HandEndStep =>
        LET final == resolveTrick(game)
            n == Len(final.players)
            score(p) == final.players[p].score
            Top(p) == score(p) > 0 /\ \A q \in 1..n : q /= p => score(q) < score(p)
            paid == { p \in 1..n :
                        Awarded(emitted'.awards, final.players[p].id, "highest_score") }
        IN /\ \A p \in 1..n : p \in paid <=> Top(p)
           /\ Cardinality(paid) <= 1
           /\ \A p \in 1..n :
                  emitted'.totalChips[p].chips =
                      game.players[p].chips
                      + DeltaIn(emitted'.awards, final.players[p].id)]_vars

\* a hand ended with one score above the others: its player has the chip
C18_Witness ==
    /\ emitted.event = "roundFinished"
    /\ \E i \in 1..Len(emitted.scores) :
           /\ \A j \in 1..Len(emitted.scores) :
                  j /= i => emitted.scores[j].score < emitted.scores[i].score
           /\ Awarded(emitted.awards, emitted.scores[i].id, "highest_score")

\* a hand ended with the highest score tied: nobody has the chip
C18_TieReached ==
    /\ emitted.event = "roundFinished"
    /\ \E i, j \in 1..Len(emitted.scores) :
           /\ i /= j
           /\ emitted.scores[i].score = emitted.scores[j].score
           /\ \A k \in 1..Len(emitted.scores) :
                  emitted.scores[k].score <= emitted.scores[i].score
    /\ \A i \in 1..Len(emitted.scores) :
           ~Awarded(emitted.awards, emitted.scores[i].id, "highest_score")

\* the final trick of the hand: the cards the players played last
FinalTrick == SubSeq(game.table, Len(game.table) - N + 1, Len(game.table))

C19_ResolvedFinalTrick ==
    [][(HandEndStep /\ TrickComplete) =>
        \A p \in 1..N :
            LET id == game.players[p].id IN
            Awarded(emitted'.awards, id, "king_of_trump_last_trick") <=>
                /\ game.table[ReferenceWinner + 1].playerId = id
                /\ \E i \in 1..N :
                       /\ game.table[i].playerId = id
                       /\ game.table[i].card = <<"K", TrumpSuit>>
                /\ ~TableHas(<<"A", TrumpSuit>>)
                /\ ~TableHas(<<"7", TrumpSuit>>)]_vars

\* a hand just dealt: every hand whole, no card played
FreshHand ==
    /\ game.isGameStarted
    /\ game.roundNumber = 1 /\ game.table = <<>>
    /\ \A p \in 1..N : Len(game.players[p].hand) = TricksPerHand

C20_ChipFollowsFlags ==
    [][HandEndStep =>
        \A p \in 1..N :
            LET id == game.players[p].id IN
            Awarded(emitted'.awards, id, "played_trump_A_and_captured_opponent_trump_7") <=>
                /\ id \in resolveTrick(game).playedTrumpAByPlayerId
                /\ id \in resolveTrick(game).capturedOppTrump7ByPlayerId]_vars

----------------------------------------------------------------------------
(* C21 *)

\* a hand of the match ended and the match goes on
NextHandStep == HandEndStep /\ meta'.isGameStarted

\* C21: between two consecutive hands of a multi-hand match the players are
\* preserved in the same seats with the same id, nickname and accumulated
\* chips, while every hand, score, capturedCards, the table and the per-hand
\* chip flags are reset and a fresh deal of 10 cards each is made; and no
\* step of a match decreases the chips of a player.
C21_BetweenHands ==
    [][/\ NextHandStep =>
            /\ Len(game'.players) = Len(game.players)
            /\ \A p \in 1..Len(game.players) :
                   /\ game'.players[p].id = game.players[p].id
                   /\ game'.players[p].nickname = game.players[p].nickname
                   /\ game'.players[p].chips = emitted'.totalChips[p].chips
                   /\ game'.players[p].score = 0
                   /\ game'.players[p].capturedCards = <<>>
            /\ DealOK(game')
            /\ game'.table = <<>>
            /\ game'.roundNumber = 1 /\ game'.turn = 0
            /\ game'.playedTrumpAByPlayerId = {}
            /\ game'.capturedOppTrump7ByPlayerId = {}
            /\ game'.lastTrickCards = <<>>
       /\ \A p \in 1..Len(game.players), q \in 1..Len(game'.players) :
              game'.players[q].id = game.players[p].id =>
                  game'.players[q].chips >= game.players[p].chips]_vars

\* the second hand of a match is dealt to players who carry chips, one of
\* them flagged in the hand before
C21_Witness ==
    /\ FreshHand
    /\ meta.exists /\ meta.currentRound = 2
    /\ emitted.event = "roundFinished"
    /\ \E p \in 1..N : game.players[p].chips > 0
    /\ \E i \in 1..Len(emitted.awards) :
           emitted.awards[i].reasons[1] = "played_trump_A_and_captured_opponent_trump_7"

----------------------------------------------------------------------------
(* C22 *)

\* checkGameEnd: how many hands end, from this round counter on, until one
\* of them ends the match (currentRound + 1 > totalRounds at its end)
HandsBeforeMatchEnd(m) ==
    IF m.currentRound >= m.totalRounds THEN 1
    ELSE m.totalRounds - m.currentRound + 1

\* a hand ended and with it the match: the room is back in the lobby
MatchEndStep == HandEndStep /\ ~meta'.isGameStarted

\* the owner starts a match in a room that is in the lobby
MatchStartStep == meta.exists /\ ~meta.isGameStarted /\ meta'.isGameStarted

\* the hands of a match counted down: the end of a hand ends the match
\* exactly when it was the last hand to play, and otherwise leaves one hand
\* less to play
C22_CountDown ==
    [][HandEndStep =>
        /\ ~meta'.isGameStarted <=> HandsBeforeMatchEnd(meta) = 1
        /\ meta'.isGameStarted =>
               HandsBeforeMatchEnd(meta') = HandsBeforeMatchEnd(meta) - 1]_vars

C22_SecondMatchReached ==
    /\ FreshHand
    /\ meta.exists /\ meta.isGameStarted
    /\ meta.totalRounds = 2 /\ meta.currentRound > meta.totalRounds

----------------------------------------------------------------------------
(* C23 *)

C23_SoleWinnerReached ==
    /\ emitted.matchFinished
    /\ Len(emitted.winners) = 1
    /\ Len(emitted.totalChips) > 1

----------------------------------------------------------------------------
(* C24 *)

\* C24: startGame returns the input state unchanged (not started, nothing
\* dealt, no trump chosen) whenever the number of players is less than 2 or
\* greater than 4.
C24_StartNeedsTwoToFour ==
    (N < 2 \/ N > 4) =>
        \A d \in DealIds : startGame(game, ShuffleOf(d), TrumpDrawOf(d)) = game

\* five players in the lobby: the game is not started, nothing is dealt
C24_Witness ==
    /\ N = 5
    /\ ~game.isGameStarted
    /\ game.trumpCard = createGame.trumpCard
    /\ \A p \in 1..N : game.players[p].hand = <<>>

\* a single player in the lobby
C24_OnePlayerReached == N = 1 /\ ~game.isGameStarted

----------------------------------------------------------------------------
(* C25 *)

\* C25: startGame on a state with 2 to 4 players sets every player's score
\* to 0 and capturedCards to empty, keeps every player's id, nickname, seat
\* and chips, and sets turn = 0, roundNumber = 1, isGameStarted = true and an
\* empty table, whatever the hand before left in the state (checked in the
\* lobby, where a trick is about to be led, and on the tables of the ninth
\* trick).
C25_StartResetsTheHand ==
    (N \in 2..4 /\ (game.table = <<>> \/ game.roundNumber < TricksPerHand)) =>
        \A d \in DealIds :
            LET started == startGame(game, ShuffleOf(d), TrumpDrawOf(d)) IN
            /\ Len(started.players) = N
            /\ \A p \in 1..N :
                   /\ started.players[p].id = game.players[p].id
                   /\ started.players[p].nickname = game.players[p].nickname
                   /\ started.players[p].chips = game.players[p].chips
                   /\ started.players[p].score = 0
                   /\ started.players[p].capturedCards = <<>>
            /\ started.turn = 0
            /\ started.roundNumber = 1
            /\ started.isGameStarted
            /\ started.table = <<>>

\* a game started again on the state of its final trick: a hand just dealt
\* that still carries the flags of the hand before
C25_Witness ==
    /\ FreshHand
    /\ game.playedTrumpAByPlayerId /= {}
    /\ game.turn = 0
    /\ \A p \in 1..N : game.players[p].score = 0 /\ game.players[p].capturedCards = <<>>

\* the state startGame is called on holds scores, captured cards, chips
\* and a table of cards
C25_UsedStateReached ==
    /\ game.isGameStarted /\ game.table /= <<>> /\ game.roundNumber < TricksPerHand
    /\ game.turn /= 0
    /\ \E p \in 1..N : game.players[p].score > 0 /\ game.players[p].chips > 0

----------------------------------------------------------------------------
(* C26 *)

\* C26: in every state reachable from startGame by any sequence of playCard
\* and resolveTrick calls, 0 <= turn < number of players.
C26_TurnIsASeat ==
    game.isGameStarted => (0 <= game.turn /\ game.turn < N)

\* the last seat has played and the turn is back at the first seat
C26_Witness ==
    /\ game.isGameStarted
    /\ Len(game.table) = N
    /\ game.table[N].playerId = game.players[N].id
    /\ game.turn = 0

\* a trick is resolved and the last seat is to lead
C26_LastSeatLeadsReached ==
    /\ game.isGameStarted
    /\ game.table = <<>> /\ game.roundNumber = 2
    /\ game.turn = N - 1

----------------------------------------------------------------------------
(* C27 *)

\* C27: in every state reachable from a started game by any sequence of
\* playCard and resolveTrick calls in any order, the table length never
\* exceeds the number of players.
C27_TableWithinSeats ==
    game.isGameStarted => Len(game.table) <= N

----------------------------------------------------------------------------
(* C28 *)

\* a player leaves the room while a hand is in progress
LeaveMidHandStep ==
    /\ meta.exists /\ meta.isGameStarted /\ game.isGameStarted
    /\ \E p \in 1..N : game.players[p].id \notin { q.id : q \in Range(game'.players) }

\* C28: when a player leaves a room while a hand is in progress, the
\* in-progress GameState is replaced by a fresh lobby state; no hand goes on
\* in a state whose player list lost a seat.
C28_LeavingEndsTheHand ==
    [][LeaveMidHandStep => (~game'.isGameStarted /\ game'.table = <<>>
                            /\ (meta'.exists => ~meta'.isGameStarted))]_vars

\* a card is accepted in a hand that lost a seat: the leader left after
\* playing and the third seat played next, the second seat being skipped
C28_PlayAfterLeaveReached ==
    /\ meta.exists /\ meta.isGameStarted /\ game.isGameStarted
    /\ Len(game.table) >= 2
    /\ game.table[1].playerId = SocketIds[1]
    /\ game.table[2].playerId = SocketIds[3]
    /\ FindIndex(game.players, SocketIds[1]) = -1

\* the hand goes on with a turn that indexes no player
C28_NobodyInTurnReached ==
    /\ meta.exists /\ meta.isGameStarted /\ game.isGameStarted
    /\ game.turn >= N

----------------------------------------------------------------------------
(* C29 *)

\* C29: within a hand, playCard and resolveTrick never change the remaining
\* deck or the trump card.
C29_DeckAndTrumpKept ==
    [][game.isGameStarted =>
          (game'.deck = game.deck /\ game'.trumpCard = game.trumpCard)]_vars

\* a trick has been resolved and the next one led, the deck not empty
C29_Witness ==
    /\ game.isGameStarted
    /\ game.roundNumber = 2 /\ Len(game.table) = 1
    /\ game.deck /= <<>>
    /\ game.trumpCard \in Cards

----------------------------------------------------------------------------
(* C30 *)

\* every card of a state, place by place: the hands, the table, the deck,
\* the captured piles
CardsInPlaces(g) ==
    Concat([p \in 1..Len(g.players) |-> g.players[p].hand])
        \o [i \in 1..Len(g.table) |-> g.table[i].card]
        \o g.deck
        \o Concat([p \in 1..Len(g.players) |-> g.players[p].capturedCards])

\* C30: in every state reachable from startGame by playCard and resolveTrick
\* calls, the hands, the table, the deck and the players' capturedCards hold
\* exactly the 40 distinct cards, each card in exactly one place.
C30_EveryCardInOnePlace ==
    game.isGameStarted =>
        /\ Len(CardsInPlaces(game)) = DeckSize
        /\ Range(CardsInPlaces(game)) = Cards

\* a trick lies in a captured pile, a card of the next trick is on the
\* table, and cards remain in the hands and in the deck
C30_Witness ==
    /\ game.isGameStarted
    /\ \E p \in 1..N : Len(game.players[p].capturedCards) = N
    /\ Len(game.table) = 1
    /\ game.deck /= <<>>
    /\ \A p \in 1..N : game.players[p].hand /= <<>>

----------------------------------------------------------------------------
(* C31 *)

\* the player to act can play: the hand is under way, the table is short of
\* cards and the player in turn holds a card
CanBeAskedToPlay ==
    /\ game.isGameStarted
    /\ Len(game.table) < N
    /\ HandOf(ToActId) /= <<>>

\* C31: in every in-progress state whose table holds fewer entries than
\* there are players and in which the player to act has a non-empty hand,
\* that player holds at least one card that playCard accepts.
C31_NoStuckPlayer ==
    CanBeAskedToPlay => \E card \in Range(HandOf(ToActId)) : Accepted(ToActId, card)

\* the player to act must answer a lead and holds no card of the suit led
C31_Witness ==
    /\ CanBeAskedToPlay
    /\ Len(game.table) >= 1
    /\ ~HoldsSuit(ToActId, LeadSuit)

\* the leader of the first trick holds trumps and other cards: some of the
\* hand is refused
C31_ConstrainedLeadReached ==
    /\ CanBeAskedToPlay
    /\ FirstLead
    /\ \E card \in Range(HandOf(ToActId)) : Rejected(ToActId, card)

----------------------------------------------------------------------------
(* C32 *)

\* whether the player has an entry on the table
OnTable(id) == \E i \in 1..Len(game.table) : game.table[i].playerId = id

\* every trick so far was resolved before the next play: a play on a full
\* table leaves more entries than players, and such a table is never
\* emptied
ResolvedInTime == Len(game.table) <= N

\* C32: when every trick is resolved before the next play, each player's
\* hand size is 10 - (roundNumber - 1) - (1 if the player has an entry on
\* the table, else 0); all hands are empty exactly from the last play of
\* the 10th trick on, and then exactly 10 tricks get resolved, for 2, 3 and
\* 4 players.
C32_HandSizes ==
    (game.isGameStarted /\ ResolvedInTime) =>
        /\ \A p \in 1..N :
               Len(game.players[p].hand) =
                   10 - (game.roundNumber - 1)
                      - (IF OnTable(game.players[p].id) THEN 1 ELSE 0)
        /\ (\A p \in 1..N : game.players[p].hand = <<>>)
               <=> \/ game.roundNumber = TricksPerHand /\ Len(game.table) = N
                   \/ game.roundNumber = TricksPerHand + 1 /\ game.table = <<>>
        /\ game.roundNumber <= TricksPerHand + 1

\* the tenth trick of a hand of four has been resolved: every hand is empty
C32_Witness ==
    /\ game.isGameStarted /\ N = 4
    /\ game.roundNumber = TricksPerHand + 1
    /\ game.table = <<>>
    /\ \A p \in 1..N : game.players[p].hand = <<>>

\* a trick in the middle of a hand of three, one player still to play
C32_MidHandReached ==
    /\ game.isGameStarted /\ N = 3
    /\ game.roundNumber = 6
    /\ Len(game.table) = 2

----------------------------------------------------------------------------
(* C33 *)

\* one iteration of determineRoundWinner's loop with the two marriage
\* checks taken out
StepWithoutMarriage(table, trumpSuit, w, i) ==
    LET highestCard == w[2]
        currentCard == table[i + 1].card
        firstCardSuit == getCardSuit(table[1].card)
        isCurrentTrump == getCardSuit(currentCard) = trumpSuit
        isHighestTrump == getCardSuit(highestCard) = trumpSuit
        followsInitialSuit == getCardSuit(currentCard) = firstCardSuit
        highestFollowsInitialSuit == getCardSuit(highestCard) = firstCardSuit
        higher == getCardOrder(getCardValue(currentCard))
                      > getCardOrder(getCardValue(highestCard))
        take == <<i, currentCard>>
    IN IF isCurrentTrump /\ ~isHighestTrump THEN take
       ELSE IF ~isCurrentTrump /\ isHighestTrump THEN w
       ELSE IF isCurrentTrump /\ isHighestTrump THEN (IF higher THEN take ELSE w)
       ELSE IF followsInitialSuit /\ ~highestFollowsInitialSuit THEN take
       ELSE IF followsInitialSuit /\ highestFollowsInitialSuit /\ higher THEN take
       ELSE w

RECURSIVE LoopWithoutMarriage(_, _, _, _)
LoopWithoutMarriage(table, trumpSuit, w, i) ==
    IF i >= Len(table) THEN w
    ELSE LoopWithoutMarriage(table, trumpSuit,
                             StepWithoutMarriage(table, trumpSuit, w, i), i + 1)

\* the winner's table index by the algorithm without the marriage checks
WinnerWithoutMarriage(g) ==
    LoopWithoutMarriage(g.table, getTrumpSuit(g.trumpCard), <<0, g.table[1].card>>, 1)[1]

\* C33: the marriage override is redundant: for every complete trick and
\* trump suit, determineRoundWinner returns the same index as the same
\* algorithm with the two marriage checks removed.
C33_MarriageIsRedundant ==
    TrickComplete => determineRoundWinner(game) = WinnerWithoutMarriage(game)

\* a complete trick in which the first marriage check fires on a suit that
\* is not trump: the 7 was led and the Ace of its suit follows
C33_Witness ==
    /\ TrickComplete
    /\ getCardSuit(game.table[1].card) /= TrumpSuit
    /\ getCardValue(game.table[1].card) = "7"
    /\ game.table[2].card = <<"A", getCardSuit(game.table[1].card)>>

\* a complete trick in which the second marriage check fires: the trump Ace
\* is the best card and the trump 7 comes after it
C33_SevenAfterAceReached ==
    /\ TrickComplete /\ N >= 3
    /\ getCardSuit(game.table[1].card) /= TrumpSuit
    /\ game.table[2].card = <<"A", TrumpSuit>>
    /\ game.table[3].card = <<"7", TrumpSuit>>

\* a complete trick with a 7 and the Ace of another suit, neither a trump
C33_MixedSuitsReached ==
    /\ TrickComplete
    /\ getCardValue(game.table[1].card) = "7"
    /\ getCardValue(game.table[2].card) = "A"
    /\ getCardSuit(game.table[2].card) /= getCardSuit(game.table[1].card)
    /\ getCardSuit(game.table[2].card) /= TrumpSuit
    /\ getCardSuit(game.table[1].card) /= TrumpSuit

----------------------------------------------------------------------------
(* C34 *)

\* C34: in every state of a hand, every player flagged in
\* capturedOppTrump7ByPlayerId is flagged in playedTrumpAByPlayerId too, and
\* at most one player is flagged in capturedOppTrump7ByPlayerId.
C34_CaptureNeedsTheAce ==
    game.isGameStarted =>
        /\ game.capturedOppTrump7ByPlayerId \subseteq game.playedTrumpAByPlayerId
        /\ Cardinality(game.capturedOppTrump7ByPlayerId) <= 1

\* a player has captured an opponent's trump 7 and the hand goes on
C34_CaptureReached ==
    /\ game.isGameStarted
    /\ game.capturedOppTrump7ByPlayerId /= {}
    /\ Len(game.table) = 1

----------------------------------------------------------------------------
(* C35 *)

\* the scores of the players, added up
SumScores(g) == SumSeq([p \in 1..Len(g.players) |-> g.players[p].score])

\* the point values of the cards, added up
PointsOf(cards) == SumSeq([i \in 1..Len(cards) |-> RulePoints(cards[i])])

\* the points of the whole deck: 120
DeckPoints == PointsOf(createDeck)

\* C35, in every state of a hand: the scores add up to the points of the
\* cards in the players' capturedCards, and never to more than 120.
C35_ScoresAreCapturedPoints ==
    game.isGameStarted =>
        /\ SumScores(game) =
               SumSeq([p \in 1..N |-> PointsOf(game.players[p].capturedCards)])
        /\ SumScores(game) <= DeckPoints
        /\ DeckPoints = 120

C35_ResolvedHandOf120 ==
    [][(HandEndStep /\ N = 4 /\ TrickComplete) =>
          SumSeq([p \in 1..Len(emitted'.scores) |-> emitted'.scores[p].score]) = 120]_vars

\* a hand of four has ended, its final trick resolved by the timer
C35_HandOfFourEndedReached ==
    /\ emitted.event = "roundFinished"
    /\ Len(emitted.scores) = 4
    /\ SumSeq([p \in 1..Len(emitted.scores) |-> emitted.scores[p].score]) = 120

----------------------------------------------------------------------------
(* C36 *)

\* C36: resolveTrick is idempotent: for every state s, the empty createGame
\* state with no players included, resolveTrick(resolveTrick(s)) equals
\* resolveTrick(s).
C36_ResolveIsIdempotent ==
    resolveTrick(resolveTrick(game)) = resolveTrick(game)

\* a complete trick is on the table: the first resolveTrick credits the
\* winner
C36_Witness ==
    /\ TrickComplete
    /\ resolveTrick(game) /= game
    /\ SumScores(resolveTrick(game)) > SumScores(game)

\* the empty state of createGame, no player in it
C36_EmptyGameReached == game = createGame

\* a trick resolved twice in a row by the engine calls
C36_ResolvedTwice ==
    [][(TrickComplete /\ game' = resolveTrick(game)
            /\ SumScores(game') > SumScores(game))
          => resolveTrick(game') = game']_vars

----------------------------------------------------------------------------
(* C37 *)

\* the play that fills the trick: it is accepted and brings the table to
\* one entry per player
FillingPlay ==
    /\ game.isGameStarted
    /\ Len(game'.table) = Len(game.table) + 1
    /\ Len(game'.table) = N

\* C37, the timer: a resolve timer is scheduled only by the play that fills
\* the trick.
C37_TimerOnlyByFillingPlay ==
    [][timers' > timers => FillingPlay]_vars

C37_StaleTimerReached ==
    /\ meta.exists /\ ~meta.isGameStarted
    /\ emitted.matchFinished
    /\ timers > 0

----------------------------------------------------------------------------
(* C38 *)

\* the ids of the players of a state
PlayerIds(g) == { g.players[p].id : p \in 1..Len(g.players) }

\* C38: a room never has more players than its capacity, which is 2, 3 or
\* 4, the player ids within a room are distinct, and no player is added to
\* a room whose game has started.
C38_RoomWithinCapacity ==
    [][/\ meta'.exists =>
              /\ meta'.capacity \in 2..4
              /\ Len(game'.players) <= meta'.capacity
              /\ Cardinality(PlayerIds(game')) = Len(game'.players)
       /\ (meta.exists /\ (meta.isGameStarted \/ game.isGameStarted)) =>
              PlayerIds(game') \subseteq PlayerIds(game)]_vars

\* a room is full and not started, and a join is asked: the next socket's
\* request is refused
C38_Witness ==
    /\ meta.exists /\ ~meta.isGameStarted
    /\ N = meta.capacity
    /\ N < Len(SocketIds)
    /\ joinRoom(game, meta, SocketIds[N + 1]) = game

\* a room is started with a seat free: a join asked now is refused
C38_StartedWithFreeSeatReached ==
    /\ meta.exists /\ meta.isGameStarted
    /\ N < meta.capacity
    /\ joinRoom(game, meta, SocketIds[N + 1]) = game

----------------------------------------------------------------------------
(* C39 *)

\* C39: each existing room's ownerId is the id of one of that room's current
\* players, so a room that is not started and has at least 2 players can
\* always be started by someone.
C39_OwnerIsAPlayer ==
    meta.exists =>
        /\ meta.ownerId \in PlayerIds(game)
        /\ (~meta.isGameStarted /\ N >= 2) =>
               \E id \in PlayerIds(game) : ~StartRefused(game, meta, id)

\* a room of two or more players, none of whom can start it
C39_NobodyCanStartReached ==
    /\ meta.exists /\ ~meta.isGameStarted
    /\ N >= 2
    /\ \A id \in PlayerIds(game) : StartRefused(game, meta, id)

----------------------------------------------------------------------------
(* C40 *)

\* C40: under any sequence of createRoom, joinRoom and disconnect events,
\* a socket id is among the players of at most one room of the server, and
\* that room is the one socketIdToRoomId maps the socket to.
C40_OneRoomPerSocket ==
    \A id \in ServerSockets :
        \A r \in RoomsOf(server, id) : server.socketIdToRoomId[id] = r

\* a connected socket is a player of two rooms
C40_SocketInTwoRoomsReached ==
    \E id \in server.sockets : Cardinality(RoomsOf(server, id)) = 2

\* a socket that has disconnected is still a player of a room
C40_GhostPlayerReached ==
    \E id \in ServerSockets \ server.sockets : RoomsOf(server, id) /= {}

\* a socket is mapped to a room that rooms no longer holds
C40_MappedToDeletedRoomReached ==
    \E id \in server.sockets :
        /\ server.socketIdToRoomId[id] /= 0
        /\ server.socketIdToRoomId[id] \notin ListedRooms(server)

=============================================================================
